---- MODULE Spec2Model ----
(***************************************************************************)
(* Portfolio analytics of the stocks dashboard front end.                  *)
(*                                                                         *)
(* Numbers.  JavaScript doubles are modelled by exact rationals <<n, d>>   *)
(* with d > 0.  A value the code obtains with Math.sqrt is carried as a    *)
(* rational multiple of the root of a rational.  The IEEE special values   *)
(* NaN, Infinity and -Infinity are records of their own.                   *)
(***************************************************************************)
EXTENDS Integers, Sequences, FiniteSets, TLC

VARIABLES
    \* ---- OptimizationPage.tsx ----
    holdings,            \* usePortfolio().holdings of the page
    constraints,         \* useState<OptimizationConstraints>
    selectedMethod,      \* useState('mean-variance')
    isOptimizing,        \* useState(false)
    optimizationResult,  \* useState<OptimizationResult | null>(null)
    showResults,         \* useState(false)
    optCall,             \* the run*Optimization promise runOptimization awaits
    resultInputs,        \* history: arguments of the call that produced optimizationResult
    \* ---- EnhancedOptimizationPage.tsx ----
    enhHoldings,         \* usePortfolio().holdings of the page
    portfolioData,       \* useMemo: symbols, returns, covariance
    enhConstraints,      \* useState<OptimizationConstraints>
    enhIsOptimizing,     \* useState(false)
    enhResult,           \* useState<OptimizationResult | null>(null)
    enhShowResults,      \* useState(false)
    fetches,             \* POST /api/optimization/optimize requests in flight
    resultOrigin,        \* history: what produced enhResult
    \* ---- EfficientFrontierChart.tsx ----
    frontierPoints,      \* useState<EfficientFrontierPoint[]>([])
    randomPortfolios,    \* useState<EfficientFrontierPoint[]>([])
    selectedPoint,       \* useState<EfficientFrontierPoint | null>(null)
    chartIsLoading,      \* useState(false)
    builds,              \* generateEfficientFrontier calls suspended at an await
    frontierOrigin,      \* history: which call stored frontierPoints
    resubmitted,         \* history: a call was made while another was in flight
    \* ---- usePerformanceAnalysis ----
    performanceReturns,  \* useState<PerformanceReturn[]>([])
    perfIsLoading,       \* useState(true)
    perfPortfolio,       \* usePortfolio(): holdings' total cost and totalValue
    historyCall,         \* apiService.getPerformanceHistory(365) in flight
    \* ---- useRiskAnalysis and the risk page ----
    riskHoldings,        \* usePortfolio().holdings
    confidenceLevel,     \* useState(95)
    timeHorizon,         \* useState(1)
    riskCall,            \* arguments of a call of useRiskAnalysis by another component
    \* ---- DashboardPage.tsx, AddAssetModal.tsx and usePortfolio ----
    showAddModal,        \* useState(false)
    formQuantity,        \* formData.quantity, the text of the input
    isSubmitting,        \* useState(false) of the modal
    dashHoldings,        \* usePortfolio().holdings
    serverHoldings,      \* the rows behind /portfolio/holdings
    addCall,             \* apiService.addHolding(holding) in flight
    refreshDue,          \* a fetchHoldings call is in flight
    onAddCalls,          \* the calls of onAdd(assetData) not yet settled
    lastSubmit,          \* what the last submit event of the form did
    \* ---- services/websocket.ts ----
    socket,              \* this.socket: the socket held, or 0 for null
    sockets,             \* every socket io() has returned and its state
    reconnectAttempts,   \* this.reconnectAttempts
    pendingTimers,       \* the setTimeout callbacks of handleReconnect not yet run
    lastEvent,           \* the socket event or timer handled last
    \* ---- contexts/AuthContext.tsx and ApiService ----
    user,                \* useState<User | null>(null): "" for null
    isLoading,           \* useState(true)
    apiToken,            \* ApiService.token: "" for null
    storedToken,         \* localStorage.getItem('token'): "" for null
    checkCall,           \* the position of checkAuth
    authCall,            \* apiService.login or apiService.register in flight
    logoutCall,          \* the request of apiService.logout
    \* ---- the event emitter of WebSocketService ----
    eventListeners,      \* this.eventListeners: the callbacks of each event, in order
    lastCall,            \* the last call of on, off or emit, and the callbacks before it
    invoked,             \* the callbacks the last emit has invoked, in order
    \* ---- usePortfolio: the calls of fetchHoldings ----
    portfolioHoldings,   \* useState<PortfolioHolding[]>([]): the rows and the fetch they came from
    portfolioRows,       \* the version of the rows the server holds
    issued,              \* the calls of fetchHoldings made so far
    getHoldingsCalls,    \* the calls of apiService.getHoldings in flight
    mutationCall,        \* apiService.addHolding, updateHolding or deleteHolding in flight
    refreshTimers,       \* the setTimeout callbacks of addHolding not yet run
    \* ---- AddAssetModal.tsx: the symbol search ----
    formSymbol,          \* the value typed last into the symbol input
    searchTimeout,       \* the value the pending debounce timer will search, or "none"
    searchCalls,         \* the queries of stockLookupService.searchStocks in flight
    searchResults,       \* the query whose results are shown, or "" for no results
    \* ---- useRealTimeData and the data refresh of SettingsPage.tsx ----
    mounted,             \* a component using useRealTimeData is mounted
    isDemoMode,          \* localStorage token starts with 'demo-token'
    refreshInterval,     \* useState of the hook, in minutes
    dataRefreshInterval, \* localStorage 'dataRefreshInterval', 0 when unset
    dataRefresh,         \* preferences.dataRefresh of the settings page
    refreshIntervalId,   \* the period of the interval of window.refreshIntervalId, 0 when none runs
    hookConnected,       \* useState(false): isConnected of the hook
    hasSymbols,          \* marketData.size > 0
    settingsChanged,     \* the user has changed the interval on the settings page
    ticks                \* the ticks of the interval since the last change

optVars == <<holdings, constraints, selectedMethod, isOptimizing,
             optimizationResult, showResults, optCall, resultInputs>>

enhVars == <<enhHoldings, portfolioData, enhConstraints, enhIsOptimizing, enhResult,
             enhShowResults, fetches, resultOrigin>>

chartVars == <<frontierPoints, randomPortfolios, selectedPoint, chartIsLoading, builds,
               frontierOrigin, resubmitted>>

perfVars == <<performanceReturns, perfIsLoading, perfPortfolio, historyCall>>

riskVars == <<riskHoldings, confidenceLevel, timeHorizon, riskCall>>

dashVars == <<showAddModal, formQuantity, isSubmitting, dashHoldings, serverHoldings,
              addCall, refreshDue, onAddCalls, lastSubmit>>

wsVars == <<socket, sockets, reconnectAttempts, pendingTimers, lastEvent>>

\* the pages of the portfolio, and the session around them
pageVars == <<optVars, enhVars, chartVars, perfVars, riskVars, dashVars>>

authVars == <<user, isLoading, apiToken, storedToken, checkCall, authCall, logoutCall>>

listenerVars == <<eventListeners, lastCall, invoked>>

portfolioVars == <<portfolioHoldings, portfolioRows, issued, getHoldingsCalls,
                   mutationCall, refreshTimers>>

searchVars == <<formSymbol, searchTimeout, searchCalls, searchResults>>

refreshVars == <<mounted, isDemoMode, refreshInterval, dataRefreshInterval, dataRefresh,
                 refreshIntervalId, hookConnected, hasSymbols, settingsChanged, ticks>>

appVars == <<wsVars, authVars, listenerVars, portfolioVars, searchVars, refreshVars>>

vars == <<pageVars, appVars>>

Null == [null |-> TRUE]

(***************************************************************************)
(* Bounds of the model.                                                    *)
(***************************************************************************)
MaxHoldings == 3

\* generateEfficientFrontier(numPoints = 50) and generateRandomPortfolios(
\* numPortfolios = 10000) are run with these smaller loop counts
NumPoints == 4
NumPortfolios == 1

\* assets handed to the chart, and calls or requests in flight at a time
MaxChartAssets == 2
MaxInFlight == 2

\* rows of a performance history, and holdings on the risk page
MaxDays == 2
MaxRiskHoldings == 2

\* rows the server keeps for the dashboard
MaxServerRows == 2

\* the sockets alive at one time, and the reconnect timers pending at one time
MaxSockets == 2
MaxTimers == 2

\* the callbacks registered for one event at one time
MaxListeners == 3

\* the calls of fetchHoldings in flight or due at one time, those made in
\* all, and the changes the server accepts
MaxFetches == 2
MaxIssued == 3
MaxChanges == 2

\* the ticks of the refresh interval counted after a change
MaxTicks == 2

(***************************************************************************)
(* Rational arithmetic.                                                    *)
(***************************************************************************)
Abs(x) == IF x < 0 THEN -x ELSE x

RECURSIVE GCD(_, _)
GCD(a, b) == IF b = 0 THEN Abs(a) ELSE GCD(Abs(b), Abs(a) % Abs(b))

Rat(n, d) ==
    LET s == IF d < 0 THEN -1 ELSE 1
        g == GCD(n, d)
    IN  <<(s * n) \div g, (s * d) \div g>>

RInt(n)    == <<n, 1>>

RAdd(x, y) ==
    LET g == GCD(x[2], y[2])
    IN  Rat(x[1] * (y[2] \div g) + y[1] * (x[2] \div g), (x[2] \div g) * y[2])

RNeg(x)    == <<-x[1], x[2]>>
RSub(x, y) == RAdd(x, RNeg(y))

RMul(x, y) ==
    LET g1 == GCD(x[1], y[2])
        g2 == GCD(y[1], x[2])
    IN  IF x[1] = 0 \/ y[1] = 0 THEN <<0, 1>>
        ELSE Rat((x[1] \div g1) * (y[1] \div g2), (x[2] \div g2) * (y[2] \div g1))

RDiv(x, y) == RMul(x, Rat(y[2], y[1]))

\* x < y, by the continued-fraction expansions (no cross products)
RECURSIVE RLess(_, _)
RLess(x, y) ==
    LET qx == x[1] \div x[2]
        qy == y[1] \div y[2]
        rx == x[1] % x[2]
        ry == y[1] % y[2]
    IN  IF qx # qy THEN qx < qy
        ELSE IF rx = 0 THEN ry > 0
        ELSE IF ry = 0 THEN FALSE
        ELSE RLess(<<y[2], ry>>, <<x[2], rx>>)

RLeq(x, y)  == ~RLess(y, x)
RMin(x, y)  == IF RLess(y, x) THEN y ELSE x
RMax(x, y)  == IF RLess(x, y) THEN y ELSE x
RSign(x)    == IF x[1] > 0 THEN 1 ELSE IF x[1] < 0 THEN -1 ELSE 0

RECURSIVE RSumSeq(_)
RSumSeq(s) == IF s = <<>> THEN RInt(0) ELSE RAdd(s[1], RSumSeq(Tail(s)))

(***************************************************************************)
(* Values of Math.sqrt and products and quotients with them:               *)
(* coef * sqrt(rad) with rationals coef and rad > 0, or NaN, or an         *)
(* infinity.  Zero is RootZero.                                            *)
(***************************************************************************)
NaN == [nan |-> TRUE]

\* Infinity and -Infinity
Infinity(sgn) == [inf |-> sgn]

RootZero == [coef |-> <<0, 1>>, rad |-> <<1, 1>>]

MkRoot(coef, rad) ==
    IF coef[1] = 0 \/ rad[1] = 0 THEN RootZero ELSE [coef |-> coef, rad |-> rad]

\* Math.sqrt(x)
Sqrt(x) == IF x[1] < 0 THEN NaN ELSE MkRoot(RInt(1), x)

\* a rational, as a value of the same kind as a root
Root(x) == MkRoot(x, RInt(1))

\* root * k, for a rational k
RootScale(r, k) == IF r = NaN THEN NaN ELSE MkRoot(RMul(r.coef, k), r.rad)

\* root > 0 (false for NaN)
RootPositive(r) == r # NaN /\ r.coef[1] > 0

\* x / root, for a rational x and root # 0:
\* x / (c * sqrt(d)) = (x / (c * d)) * sqrt(d)
DivByRoot(x, r) == MkRoot(RDiv(x, RMul(r.coef, r.rad)), r.rad)

\* the products and quotients of roots (b # 0 in the quotient)
RootMul(a, b) ==
    IF a = NaN \/ b = NaN THEN NaN
    ELSE MkRoot(RMul(a.coef, b.coef), RMul(a.rad, b.rad))

RootDiv(a, b) == MkRoot(RDiv(a.coef, b.coef), RDiv(a.rad, b.rad))

\* x / r in floating point, for a rational x: the divisor may be 0 or NaN
Quotient(x, r) ==
    IF r = NaN THEN NaN
    ELSE IF r = RootZero THEN (IF x[1] = 0 THEN NaN ELSE Infinity(RSign(x)))
    ELSE DivByRoot(x, r)

\* the number is 0 (and so neither NaN nor infinite)
IsZero(x) == x = RootZero

\* the square of a root
RootSquare(r) == RMul(r.coef, RMul(r.coef, r.rad))

\* a > b (false when either is NaN)
RootGreater(a, b) ==
    IF a = NaN \/ b = NaN THEN FALSE
    ELSE IF a.rad = b.rad THEN RLess(b.coef, a.coef)
    ELSE IF RSign(a.coef) # RSign(b.coef) THEN RSign(a.coef) > RSign(b.coef)
    ELSE IF RSign(a.coef) = 1 THEN RLess(RootSquare(b), RootSquare(a))
    ELSE RLess(RootSquare(a), RootSquare(b))

(***************************************************************************)
(* usePortfolio: every holding fetchHoldings maps from the API response    *)
(* gets the category 'Stock'; symbols are those of the server's rows.      *)
(***************************************************************************)
Symbols == <<"RELIANCE", "TCS", "ITC", "INFY">>

DefaultCategory == "Stock"

MappedHoldings(n) == [i \in 1..n |-> [symbol |-> Symbols[i], category |-> DefaultCategory]]

(***************************************************************************)
(* OptimizationPage.tsx                                                    *)
(***************************************************************************)
RISK_FREE_RATE == <<7, 100>>

OPTIMIZATION_METHODS ==
    {"mean-variance", "black-litterman", "risk-parity", "min-volatility", "max-sharpe"}

\* the two range inputs: min="5" max="50" and min="0" max="10"
MaxPositionChoices == {30, 50}
MinPositionChoices == {2, 10}

DefaultConstraints == [maxPositionSize |-> 30, minPositionSize |-> 2]

\* Object.keys(allocations).forEach(symbol => allocations[symbol] = allocations[symbol] / total * 100)
Normalize(raw, hs) ==
    LET total == RSumSeq([i \in 1..Len(hs) |-> raw[i]])
    IN  [i \in 1..Len(hs) |-> RMul(RDiv(raw[i], total), RInt(100))]

MeanVarianceMultiplier(category) ==
    CASE category = "Technology" -> <<12, 10>>
      [] category = "Banking"    -> <<11, 10>>
      [] category = "Healthcare" -> <<9, 10>>
      [] OTHER                   -> <<1, 1>>

\* let weight = equalWeight, adjusted by category
BaseWeight(hs, i) ==
    RMul(Rat(100, Len(hs)), MeanVarianceMultiplier(hs[i].category))

\* weight = Math.min(weight, maxPositionSize); weight = Math.max(weight, minPositionSize)
ClampedWeight(hs, i, c) ==
    RMax(RMin(BaseWeight(hs, i), RInt(c.maxPositionSize)), RInt(c.minPositionSize))

runMeanVarianceOptimization(hs, c) ==
    [method             |-> "mean-variance",
     allocations        |-> Normalize([i \in 1..Len(hs) |-> ClampedWeight(hs, i, c)], hs),
     expectedReturn     |-> <<125, 1000>>,
     expectedVolatility |-> <<16, 100>>,
     sharpeRatio        |-> RDiv(RSub(<<125, 1000>>, RISK_FREE_RATE), <<16, 100>>),
     maxDrawdown        |-> <<18, 100>>,
     confidence         |-> <<85, 100>>,
     rebalancingCost    |-> <<2, 1000>>]

\* holding.symbol.includes(name), for the plain ticker symbols of Symbols
Includes(symbol, name) == symbol = name

BlackLittermanMultiplier(symbol) ==
    CASE Includes(symbol, "RELIANCE") -> <<25, 10>>
      [] Includes(symbol, "TCS")      -> <<2, 1>>
      [] Includes(symbol, "HDFC")     -> <<18, 10>>
      [] Includes(symbol, "INFY")     -> <<16, 10>>
      [] Includes(symbol, "ITC")      -> <<14, 10>>
      [] OTHER                        -> <<1, 1>>

runBlackLittermanOptimization(hs) ==
    [method             |-> "black-litterman",
     allocations        |-> Normalize([i \in 1..Len(hs) |->
                                RMul(Rat(100, Len(hs)), BlackLittermanMultiplier(hs[i].symbol))], hs),
     expectedReturn     |-> <<115, 1000>>,
     expectedVolatility |-> <<15, 100>>,
     sharpeRatio        |-> RDiv(RSub(<<115, 1000>>, RISK_FREE_RATE), <<15, 100>>),
     maxDrawdown        |-> <<15, 100>>,
     confidence         |-> <<90, 100>>,
     rebalancingCost    |-> <<1, 1000>>]

SectorVolatility(category) ==
    CASE category = "Technology" -> <<28, 100>>
      [] category = "Banking"    -> <<25, 100>>
      [] category = "Healthcare" -> <<18, 100>>
      [] category = "FMCG"       -> <<15, 100>>
      [] category = "Energy"     -> <<30, 100>>
      [] category = "Auto"       -> <<22, 100>>
      [] OTHER                   -> <<20, 100>>

\* the same result with equal weights
EqualWeightResult(hs) ==
    [method             |-> "risk-parity",
     allocations        |-> [i \in 1..Len(hs) |-> Rat(100, Len(hs))],
     expectedReturn     |-> <<105, 1000>>,
     expectedVolatility |-> <<12, 100>>,
     sharpeRatio        |-> RDiv(RSub(<<105, 1000>>, RISK_FREE_RATE), <<12, 100>>),
     maxDrawdown        |-> <<12, 100>>,
     confidence         |-> <<92, 100>>,
     rebalancingCost    |-> <<15, 10000>>]

runRiskParityOptimization(hs) ==
    [method             |-> "risk-parity",
     allocations        |-> Normalize([i \in 1..Len(hs) |->
                                RDiv(RInt(1), SectorVolatility(hs[i].category))], hs),
     expectedReturn     |-> <<105, 1000>>,
     expectedVolatility |-> <<12, 100>>,
     sharpeRatio        |-> RDiv(RSub(<<105, 1000>>, RISK_FREE_RATE), <<12, 100>>),
     maxDrawdown        |-> <<12, 100>>,
     confidence         |-> <<92, 100>>,
     rebalancingCost    |-> <<15, 10000>>]

MinVolatilityMultiplier(category) ==
    CASE category = "FMCG"       -> <<15, 10>>
      [] category = "Healthcare" -> <<13, 10>>
      [] category = "Utilities"  -> <<14, 10>>
      [] category = "Technology" -> <<7, 10>>
      [] category = "Energy"     -> <<6, 10>>
      [] OTHER                   -> <<1, 1>>

runMinVolatilityOptimization(hs) ==
    [method             |-> "min-volatility",
     allocations        |-> Normalize([i \in 1..Len(hs) |->
                                RMul(Rat(100, Len(hs)), MinVolatilityMultiplier(hs[i].category))], hs),
     expectedReturn     |-> <<95, 1000>>,
     expectedVolatility |-> <<10, 100>>,
     sharpeRatio        |-> RDiv(RSub(<<95, 1000>>, RISK_FREE_RATE), <<10, 100>>),
     maxDrawdown        |-> <<8, 100>>,
     confidence         |-> <<95, 100>>,
     rebalancingCost    |-> <<1, 1000>>]

\* (expectedReturn - RISK_FREE_RATE) / volatility of the holding's sector
SectorSharpe(category) ==
    CASE category = "Technology" -> RDiv(RSub(<<18, 100>>, RISK_FREE_RATE), <<28, 100>>)
      [] category = "Banking"    -> RDiv(RSub(<<15, 100>>, RISK_FREE_RATE), <<25, 100>>)
      [] category = "Healthcare" -> RDiv(RSub(<<13, 100>>, RISK_FREE_RATE), <<18, 100>>)
      [] category = "FMCG"       -> RDiv(RSub(<<11, 100>>, RISK_FREE_RATE), <<15, 100>>)
      [] OTHER                   -> RDiv(RSub(<<12, 100>>, RISK_FREE_RATE), <<20, 100>>)

runMaxSharpeOptimization(hs) ==
    [method             |-> "max-sharpe",
     allocations        |-> Normalize([i \in 1..Len(hs) |->
                                RMul(Rat(100, Len(hs)), SectorSharpe(hs[i].category))], hs),
     expectedReturn     |-> <<14, 100>>,
     expectedVolatility |-> <<18, 100>>,
     sharpeRatio        |-> RDiv(RSub(<<14, 100>>, RISK_FREE_RATE), <<18, 100>>),
     maxDrawdown        |-> <<20, 100>>,
     confidence         |-> <<80, 100>>,
     rebalancingCost    |-> <<3, 1000>>]

\* the switch (selectedMethod) of runOptimization
Optimize(method, hs, c) ==
    CASE method = "mean-variance"   -> runMeanVarianceOptimization(hs, c)
      [] method = "black-litterman" -> runBlackLittermanOptimization(hs)
      [] method = "risk-parity"     -> runRiskParityOptimization(hs)
      [] method = "min-volatility"  -> runMinVolatilityOptimization(hs)
      [] method = "max-sharpe"      -> runMaxSharpeOptimization(hs)
      [] OTHER                      -> runMeanVarianceOptimization(hs, c)

InitOpt ==
    /\ holdings = <<>>
    /\ constraints = DefaultConstraints
    /\ selectedMethod = "mean-variance"
    /\ isOptimizing = FALSE
    /\ optimizationResult = Null
    /\ showResults = FALSE
    /\ optCall = Null
    /\ resultInputs = Null

\* usePortfolio's initial fetch delivers the holdings of the page
FetchHoldings ==
    /\ holdings = <<>>
    /\ \E n \in 1..MaxHoldings : holdings' = MappedHoldings(n)
    /\ UNCHANGED <<constraints, selectedMethod, isOptimizing, optimizationResult,
                   showResults, optCall, resultInputs>>
    /\ UNCHANGED <<enhVars, chartVars, perfVars, riskVars, dashVars, appVars>>

SetMaxPositionSize ==
    /\ holdings # <<>>
    /\ \E v \in MaxPositionChoices :
          /\ v # constraints.maxPositionSize
          /\ constraints' = [constraints EXCEPT !.maxPositionSize = v]
    /\ UNCHANGED <<holdings, selectedMethod, isOptimizing, optimizationResult,
                   showResults, optCall, resultInputs>>
    /\ UNCHANGED <<enhVars, chartVars, perfVars, riskVars, dashVars, appVars>>

SetMinPositionSize ==
    /\ holdings # <<>>
    /\ \E v \in MinPositionChoices :
          /\ v # constraints.minPositionSize
          /\ constraints' = [constraints EXCEPT !.minPositionSize = v]
    /\ UNCHANGED <<holdings, selectedMethod, isOptimizing, optimizationResult,
                   showResults, optCall, resultInputs>>
    /\ UNCHANGED <<enhVars, chartVars, perfVars, riskVars, dashVars, appVars>>

SetSelectedMethod ==
    /\ holdings # <<>>
    /\ \E m \in OPTIMIZATION_METHODS :
          /\ m # selectedMethod
          /\ selectedMethod' = m
    /\ UNCHANGED <<holdings, constraints, isOptimizing, optimizationResult,
                   showResults, optCall, resultInputs>>
    /\ UNCHANGED <<enhVars, chartVars, perfVars, riskVars, dashVars, appVars>>

\* onClick={runOptimization} disabled={isOptimizing}: up to the await
runOptimization ==
    /\ ~isOptimizing
    /\ holdings # <<>>
    /\ isOptimizing' = TRUE
    /\ showResults' = FALSE
    /\ optCall' = [result |-> Optimize(selectedMethod, holdings, constraints),
                   inputs |-> [method |-> selectedMethod, holdings |-> holdings,
                               constraints |-> constraints]]
    /\ UNCHANGED <<holdings, constraints, selectedMethod, optimizationResult, resultInputs>>
    /\ UNCHANGED <<enhVars, chartVars, perfVars, riskVars, dashVars, appVars>>

\* the continuation after the await, and the finally block
runOptimizationResume ==
    /\ optCall # Null
    /\ optimizationResult' = optCall.result
    /\ resultInputs' = optCall.inputs
    /\ showResults' = TRUE
    /\ isOptimizing' = FALSE
    /\ optCall' = Null
    /\ UNCHANGED <<holdings, constraints, selectedMethod>>
    /\ UNCHANGED <<enhVars, chartVars, perfVars, riskVars, dashVars, appVars>>

NextOpt ==
    \/ FetchHoldings
    \/ SetMaxPositionSize
    \/ SetMinPositionSize
    \/ SetSelectedMethod
    \/ runOptimization
    \/ runOptimizationResume

(***************************************************************************)
(* EnhancedOptimizationPage.tsx: the mock estimate handed to the chart     *)
(***************************************************************************)
\* values of Math.random()
RandomDraws == {<<1, 10>>, <<9, 10>>}

\* the successive values Math.random() returns to one computation: a pair
\* of values, repeated
DrawStreams == RandomDraws \X RandomDraws

\* the n-th value of a stream
Draw(stream, n) == stream[((n - 1) % Len(stream)) + 1]

\* 0.08 + (Math.random() - 0.5) * 0.1
MockReturn(u) == RAdd(<<8, 100>>, RMul(RSub(u, <<1, 2>>), <<1, 10>>))

\* 0.02 + Math.random() * 0.03 on the diagonal, (Math.random() - 0.5) * 0.01 off it
MockCovariance(i, j, u) ==
    IF i = j THEN RAdd(<<2, 100>>, RMul(u, <<3, 100>>))
    ELSE RMul(RSub(u, <<1, 2>>), <<1, 100>>)

\* the useMemo over [holdings]: returns draws first, then covariance row by row
PortfolioData(hs, stream) ==
    [symbols    |-> [i \in 1..Len(hs) |-> hs[i].symbol],
     returns    |-> [i \in 1..Len(hs) |-> MockReturn(Draw(stream, i))],
     covariance |-> [i \in 1..Len(hs) |->
                        [j \in 1..Len(hs) |->
                            MockCovariance(i, j, Draw(stream, Len(hs) + (i - 1) * Len(hs) + j))]]]

EmptyPortfolioData == [symbols |-> <<>>, returns |-> <<>>, covariance |-> <<>>]

(***************************************************************************)
(* EfficientFrontierChart.tsx                                              *)
(***************************************************************************)
NumAssets(data) == Len(data.symbols)

\* weights.reduce((sum, w, idx) => sum + w * returns[idx], 0)
ExpectedReturn(weights, data) ==
    RSumSeq([i \in 1..NumAssets(data) |-> RMul(weights[i], data.returns[i])])

\* variance += weights[j] * weights[k] * covariance[j][k]
PortfolioVariance(weights, data) ==
    RSumSeq([j \in 1..NumAssets(data) |->
        RSumSeq([k \in 1..NumAssets(data) |->
            RMul(RMul(weights[j], weights[k]), data.covariance[j][k])])])

ChartRiskFreeRate == <<2, 100>>

\* volatility > 0 ? (expectedReturn - riskFreeRate) / volatility : 0
SharpeRatio(expectedReturn, volatility) ==
    IF RootPositive(volatility)
    THEN DivByRoot(RSub(expectedReturn, ChartRiskFreeRate), volatility)
    ELSE RootZero

\* the EfficientFrontierPoint pushed for a weight vector
PointOf(weights, data) ==
    LET expectedReturn == ExpectedReturn(weights, data)
        volatility     == Sqrt(PortfolioVariance(weights, data))
    IN  [risk        |-> RootScale(volatility, RInt(100)),
         return      |-> RMul(expectedReturn, RInt(100)),
         weights     |-> weights,
         sharpeRatio |-> SharpeRatio(expectedReturn, volatility),
         isOptimal   |-> FALSE]

\* weights.map(w => w / sum)
Scaled(weights, sum) == [i \in 1..Len(weights) |-> RDiv(weights[i], sum)]

\* if (constraints.maxWeight) Math.min(...); if (constraints.minWeight) Math.max(...)
ApplyConstraints(weights, c) ==
    LET capped == IF c.maxWeight[1] # 0
                  THEN [i \in 1..Len(weights) |-> RMin(weights[i], c.maxWeight)]
                  ELSE weights
    IN  IF c.minWeight[1] # 0
        THEN [i \in 1..Len(weights) |-> RMax(capped[i], c.minWeight)]
        ELSE capped

\* one iteration of the loop of generateRandomPortfolios, for the draws u
RandomPortfolio(data, c, u) ==
    LET normalized  == Scaled(u, RSumSeq(u))
        constrained == ApplyConstraints(normalized, c)
        sum         == RSumSeq(constrained)
    IN  PointOf(IF sum[1] > 0 THEN Scaled(constrained, sum) ELSE constrained, data)

\* for (let i = 0; i < numPortfolios; i++): one draw per asset and portfolio
generateRandomPortfolios(data, c, stream) ==
    [p \in 1..NumPortfolios |->
        RandomPortfolio(data, c,
            [i \in 1..NumAssets(data) |-> Draw(stream, (p - 1) * NumAssets(data) + i)])]

RECURSIVE RMinSeq(_)
RMinSeq(s) == IF Len(s) = 1 THEN s[1] ELSE RMin(s[1], RMinSeq(Tail(s)))

RECURSIVE RMaxSeq(_)
RMaxSeq(s) == IF Len(s) = 1 THEN s[1] ELSE RMax(s[1], RMaxSeq(Tail(s)))

\* weights biased toward the higher-return assets, or null; an empty
\* tuple stands for null
simulateMeanVarianceOptimization(data, targetReturn) ==
    LET weights == [i \in 1..NumAssets(data) |->
                      RMax(RInt(0), RAdd(RSub(data.returns[i], targetReturn), <<5, 100>>))]
        sum     == RSumSeq(weights)
    IN  IF sum[1] > 0 THEN <<Scaled(weights, sum)>> ELSE <<>>

\* (minReturn + (maxReturn - minReturn) * i / (numPoints - 1)) / 100
TargetReturn(data, i, numPoints) ==
    LET minReturn == RMinSeq(data.returns)
        maxReturn == RMaxSeq(data.returns)
    IN  RAdd(minReturn, RDiv(RMul(RSub(maxReturn, minReturn), RInt(i)), RInt(numPoints - 1)))

\* the points pushed by iterations i .. numPoints - 1 of the loop; with
\* numPoints = 1 the target is 0 / 0 = NaN, every weight is NaN and
\* simulateMeanVarianceOptimization returns null
RECURSIVE FrontierLoop(_, _, _)
FrontierLoop(data, i, numPoints) ==
    IF i >= numPoints THEN <<>>
    ELSE LET w == IF numPoints = 1 THEN <<>>
                  ELSE simulateMeanVarianceOptimization(data, TargetReturn(data, i, numPoints))
         IN  (IF w = <<>> THEN <<>> ELSE <<PointOf(w[1], data)>>)
                 \o FrontierLoop(data, i + 1, numPoints)

\* points.reduce((max, point) => point.sharpeRatio > max.sharpeRatio ? point : max):
\* the index of the point the reduce returns, for a non-empty array
RECURSIVE MaxSharpeIndex(_, _, _)
MaxSharpeIndex(points, i, max) ==
    IF i > Len(points) THEN max
    ELSE MaxSharpeIndex(points, i + 1,
             IF RootGreater(points[i].sharpeRatio, points[max].sharpeRatio) THEN i ELSE max)

\* a reduce that keeps its last element
LastPoint(points) == Len(points)

\* const maxSharpePoint = points.reduce(...), as an index into points
MaxSharpePoint(points) == MaxSharpeIndex(points, 2, 1)

\* a build whose reduce starts from an initial value and so never throws
FrontierWithoutThrow(data, numPoints) ==
    [threw |-> FALSE, points |-> FrontierLoop(data, 0, numPoints)]

\* the array given to setFrontierPoints; reduce of an empty array throws
\* and the catch block stores nothing
generateEfficientFrontier(data, numPoints) ==
    LET points == FrontierLoop(data, 0, numPoints)
    IN  IF points = <<>> THEN [threw |-> TRUE, points |-> <<>>]
        ELSE [threw  |-> FALSE,
              points |-> [points EXCEPT ![MaxSharpePoint(points)].isOptimal = TRUE]]

(***************************************************************************)
(* The chart inside the page.  The page passes a fresh constraints object  *)
(* on each of its renders, so generateRandomPortfolios changes and the     *)
(* chart's effect runs again after every state change of the page.         *)
(* generateEfficientFrontier suspends at its awaits; every call goes       *)
(* through the same number of awaits of settled promises, so the calls in  *)
(* flight complete in the order they were made.                            *)
(***************************************************************************)
\* constraints={{ maxWeight: maxPositionSize / 100, minWeight: minPositionSize / 100 }}
ChartConstraints(c) ==
    [maxWeight |-> Rat(c.maxPositionSize, 100), minWeight |-> Rat(c.minPositionSize, 100)]

\* the values portfolioData and the constraints prop take
AllPortfolioData ==
    {PortfolioData(MappedHoldings(n), stream) : n \in 1..MaxChartAssets, stream \in DrawStreams}

AllChartConstraints ==
    {ChartConstraints([maxPositionSize |-> a, minPositionSize |-> b]) :
        a \in MaxPositionChoices, b \in MinPositionChoices}

\* generateEfficientFrontier() and generateRandomPortfolios(), tabulated
FrontierOf == [data \in AllPortfolioData |-> generateEfficientFrontier(data, NumPoints)]

CloudCalls ==
    {<<data, c, stream>> :
        data \in AllPortfolioData, c \in AllChartConstraints, stream \in DrawStreams}

CloudOf == [call \in CloudCalls |-> generateRandomPortfolios(call[1], call[2], call[3])]

Superseded(origin) == IF origin = "none" THEN "none" ELSE "earlier"

\* useEffect: setRandomPortfolios(generateRandomPortfolios()); generateEfficientFrontier()
\* up to its first await
ChartEffect(data, c) ==
    /\ NumAssets(data) > 0
    /\ Len(builds) < MaxInFlight
    /\ \E stream \in DrawStreams :
          randomPortfolios' = CloudOf[<<data, ChartConstraints(c), stream>>]
    /\ chartIsLoading' = TRUE
    /\ builds' = Append([b \in 1..Len(builds) |-> [builds[b] EXCEPT !.latest = FALSE]],
                        [data |-> data, latest |-> TRUE])
    /\ frontierOrigin' = Superseded(frontierOrigin)
    /\ resubmitted' = (resubmitted \/ builds # <<>>)
    /\ UNCHANGED frontierPoints

\* the rest of the oldest call in flight: setFrontierPoints(points), or the
\* catch block, and setIsLoading(false)
generateEfficientFrontierResume ==
    /\ builds # <<>>
    /\ LET call   == Head(builds)
           result == FrontierOf[call.data]
       IN  /\ frontierPoints' = IF result.threw THEN frontierPoints ELSE result.points
           /\ frontierOrigin' = IF result.threw THEN frontierOrigin
                                ELSE IF call.latest THEN "latest" ELSE "earlier"
    /\ chartIsLoading' = FALSE
    /\ builds' = Tail(builds)
    /\ UNCHANGED <<randomPortfolios, selectedPoint, resubmitted>>
    /\ UNCHANGED <<optVars, enhVars, perfVars, riskVars, dashVars, appVars>>

InitEnh ==
    /\ enhHoldings = <<>>
    /\ portfolioData = EmptyPortfolioData
    /\ enhConstraints = DefaultConstraints
    /\ enhIsOptimizing = FALSE
    /\ enhResult = Null
    /\ enhShowResults = FALSE
    /\ fetches = <<>>
    /\ resultOrigin = [kind |-> "none", latest |-> FALSE]

InitChart ==
    /\ frontierPoints = <<>>
    /\ randomPortfolios = <<>>
    /\ selectedPoint = Null
    /\ chartIsLoading = FALSE
    /\ builds = <<>>
    /\ frontierOrigin = "none"
    /\ resubmitted = FALSE

\* usePortfolio's initial fetch; portfolioData is recomputed and the chart mounts
EnhFetchHoldings ==
    /\ enhHoldings = <<>>
    /\ \E n \in 1..MaxChartAssets :
       \E stream \in DrawStreams :
          /\ enhHoldings' = MappedHoldings(n)
          /\ portfolioData' = PortfolioData(MappedHoldings(n), stream)
          /\ ChartEffect(PortfolioData(MappedHoldings(n), stream), enhConstraints)
    /\ UNCHANGED <<enhConstraints, enhIsOptimizing, enhResult, enhShowResults, fetches,
                   resultOrigin, selectedPoint>>
    /\ UNCHANGED <<optVars, perfVars, riskVars, dashVars, appVars>>

EnhSetMaxPositionSize ==
    /\ \E v \in MaxPositionChoices :
          /\ v # enhConstraints.maxPositionSize
          /\ enhConstraints' = [enhConstraints EXCEPT !.maxPositionSize = v]
          /\ ChartEffect(portfolioData, [enhConstraints EXCEPT !.maxPositionSize = v])
    /\ UNCHANGED <<enhHoldings, portfolioData, enhIsOptimizing, enhResult, enhShowResults,
                   fetches, resultOrigin, selectedPoint>>
    /\ UNCHANGED <<optVars, perfVars, riskVars, dashVars, appVars>>

EnhSetMinPositionSize ==
    /\ \E v \in MinPositionChoices :
          /\ v # enhConstraints.minPositionSize
          /\ enhConstraints' = [enhConstraints EXCEPT !.minPositionSize = v]
          /\ ChartEffect(portfolioData, [enhConstraints EXCEPT !.minPositionSize = v])
    /\ UNCHANGED <<enhHoldings, portfolioData, enhIsOptimizing, enhResult, enhShowResults,
                   fetches, resultOrigin, selectedPoint>>
    /\ UNCHANGED <<optVars, perfVars, riskVars, dashVars, appVars>>

\* a second click has no handler to reach
AlwaysEnabled == TRUE

\* disabled={isOptimizing}
CanRunOptimization == ~enhIsOptimizing

\* runOptimization of the page, up to the await of fetch
EnhRunOptimization ==
    /\ CanRunOptimization
    /\ enhHoldings # <<>>
    /\ Len(fetches) < MaxInFlight
    /\ enhIsOptimizing' = TRUE
    /\ enhShowResults' = FALSE
    /\ fetches' = Append([f \in 1..Len(fetches) |-> [fetches[f] EXCEPT !.latest = FALSE]],
                         [latest |-> TRUE])
    /\ resultOrigin' = [resultOrigin EXCEPT !.latest = FALSE]
    /\ ChartEffect(portfolioData, enhConstraints)
    /\ UNCHANGED <<enhHoldings, portfolioData, enhConstraints, enhResult, selectedPoint>>
    /\ UNCHANGED <<optVars, perfVars, riskVars, dashVars, appVars>>

Without(s, i) == [n \in 1..(Len(s) - 1) |-> IF n < i THEN s[n] ELSE s[n + 1]]

\* response.json() of the optimize endpoint: not produced by this repository
ServerResult == [method |-> "mean-variance", server |-> TRUE]

\* response.ok: setOptimizationResult(result); setShowResults(true); finally
EnhOptimizationOk ==
    /\ \E i \in 1..Len(fetches) :
          /\ resultOrigin' = [kind |-> "server", latest |-> fetches[i].latest]
          /\ fetches' = Without(fetches, i)
    /\ enhResult' = ServerResult
    /\ enhShowResults' = TRUE
    /\ enhIsOptimizing' = FALSE
    /\ ChartEffect(portfolioData, enhConstraints)
    /\ UNCHANGED <<enhHoldings, portfolioData, enhConstraints, selectedPoint>>
    /\ UNCHANGED <<optVars, perfVars, riskVars, dashVars, appVars>>

\* acc[holding.symbol] = Math.random() * 20 + 5
MockResult(hs, stream) ==
    [method             |-> "mean-variance",
     allocations        |-> [i \in 1..Len(hs) |-> RAdd(RMul(Draw(stream, i), RInt(20)), RInt(5))],
     expectedReturn     |-> <<12, 100>>,
     expectedVolatility |-> <<16, 100>>,
     sharpeRatio        |-> <<625, 1000>>,
     confidence         |-> <<85, 100>>]

\* the request failed or !response.ok: the catch block, and finally
EnhOptimizationFailed ==
    /\ \E i \in 1..Len(fetches) :
          /\ resultOrigin' = [kind |-> "mock", latest |-> fetches[i].latest]
          /\ fetches' = Without(fetches, i)
    /\ \E stream \in DrawStreams :
          enhResult' = MockResult(enhHoldings, stream)
    /\ enhShowResults' = TRUE
    /\ enhIsOptimizing' = FALSE
    /\ ChartEffect(portfolioData, enhConstraints)
    /\ UNCHANGED <<enhHoldings, portfolioData, enhConstraints, selectedPoint>>
    /\ UNCHANGED <<optVars, perfVars, riskVars, dashVars, appVars>>

\* handlePortfolioSelect(weights, metrics)
SelectionResult(hs, point) ==
    [method             |-> "efficient-frontier-selection",
     allocations        |-> [i \in 1..Len(hs) |-> RMul(point.weights[i], RInt(100))],
     expectedReturn     |-> RDiv(point.return, RInt(100)),
     expectedVolatility |-> RootScale(point.risk, <<1, 100>>),
     sharpeRatio        |-> point.sharpeRatio,
     confidence         |-> <<9, 10>>]

\* every point the chart plots: both scatters
PlottedPoints == frontierPoints \o randomPortfolios

\* the points of the scatter that has an onClick: <Scatter data={frontierPoints}
\* onClick={(data) => data && handlePointClick(data)}>; the scatter of
\* randomPortfolios has none
ClickablePoints == frontierPoints

\* onClick of a point of the frontier scatter: handlePointClick, then
\* onPortfolioSelect = handlePortfolioSelect of the page
handlePointClick ==
    /\ ~chartIsLoading
    /\ \E i \in 1..Len(ClickablePoints) :
          /\ selectedPoint' = ClickablePoints[i]
          /\ enhResult' = SelectionResult(enhHoldings, ClickablePoints[i])
          /\ resultOrigin' = [kind   |-> IF i <= Len(frontierPoints) THEN "selection"
                                         ELSE "cloud-selection",
                              latest |-> FALSE]
    /\ enhShowResults' = TRUE
    /\ ChartEffect(portfolioData, enhConstraints)
    /\ UNCHANGED <<enhHoldings, portfolioData, enhConstraints, enhIsOptimizing, fetches>>
    /\ UNCHANGED <<optVars, perfVars, riskVars, dashVars, appVars>>

NextEnh ==
    \/ EnhFetchHoldings
    \/ EnhSetMaxPositionSize
    \/ EnhSetMinPositionSize
    \/ EnhRunOptimization
    \/ EnhOptimizationOk
    \/ EnhOptimizationFailed
    \/ handlePointClick
    \/ generateEfficientFrontierResume

(***************************************************************************)
(* usePerformanceAnalysis (the hook that reads the history from the API)   *)
(***************************************************************************)
\* the rows of the server's history: daily_return and benchmark_return in
\* percent; the rows carry no cumulative_return
DailyReturnChoices == {-1, 0, 1}
BenchmarkReturnChoices == {0, 1}

\* total_value of a day: lower on a day of loss, higher on a day of gain
DayValue(dailyReturn) == 100 + 20 * dailyReturn

HistoryRows ==
    {[daily_return |-> r, benchmark_return |-> b, total_value |-> DayValue(r)] :
        r \in DailyReturnChoices, b \in BenchmarkReturnChoices}

\* day.date of the rows, in the order the server sends them
Dates == <<"2024-01-01", "2024-01-02", "2024-01-03", "2024-01-04">>

Histories ==
    UNION {{[d \in 1..n |-> [date |-> Dates[d]] @@ rows[d]] : rows \in [1..n -> HistoryRows]} :
              n \in 1..MaxDays}

\* the holdings' total cost and value, as usePortfolio reports them
PortfolioChoices ==
    {[holdings |-> 0, totalCost |-> 0, totalValue |-> 0],
     [holdings |-> 1, totalCost |-> 100, totalValue |-> 110],
     [holdings |-> 1, totalCost |-> 100, totalValue |-> 90]}

\* historyData.map(day => ({ dailyReturn: day.daily_return || 0, ... }))
calculatePerformanceReturns(historyData) ==
    [d \in 1..Len(historyData) |->
        [date             |-> historyData[d].date,
         portfolioValue   |-> historyData[d].total_value,
         dailyReturn      |-> historyData[d].daily_return,
         cumulativeReturn |-> 0,
         benchmarkReturn  |-> historyData[d].benchmark_return,
         excessReturn     |-> historyData[d].daily_return - historyData[d].benchmark_return]]

\* riskFreeRate / 252
DailyRiskFreeRate == Rat(2, 100 * 252)

Mean(xs) == RDiv(RSumSeq(xs), RInt(Len(xs)))

\* sum of (x - mean(x)) * (y - mean(y)), divided by length - 1, for two
\* rows or more
SampleCovariance(xs, ys) ==
    RDiv(RSumSeq([d \in 1..Len(xs) |->
             RMul(RSub(xs[d], Mean(xs)), RSub(ys[d], Mean(ys)))]),
         RInt(Len(xs) - 1))

\* Math.sqrt(variance * 252)
Annualized(variance) == Sqrt(RMul(variance, RInt(252)))

\* downsideReturns.reduce(...) / downsideReturns.length, or 0
DownsideVariance(dailyReturns) ==
    LET downside == {d \in 1..Len(dailyReturns) : RLess(dailyReturns[d], DailyRiskFreeRate)}
        squares  == [d \in 1..Len(dailyReturns) |->
                        IF d \in downside
                        THEN RMul(RSub(dailyReturns[d], DailyRiskFreeRate),
                                  RSub(dailyReturns[d], DailyRiskFreeRate))
                        ELSE RInt(0)]
    IN  IF downside = {} THEN RInt(0)
        ELSE RDiv(RSumSeq(squares), RInt(Cardinality(downside)))

\* performanceReturns.forEach(point => ...) of the maximum drawdown, from row
\* d on: peak follows the highest portfolioValue so far, and a drawdown
\* strictly above maxDrawdown replaces it and its date.  A peak of 0 gives
\* 0 / 0 = NaN, which is not above anything.
RECURSIVE DrawdownScan(_, _, _, _, _)
DrawdownScan(returns, d, peak, maxDrawdown, maxDrawdownDate) ==
    IF d > Len(returns)
    THEN [maxDrawdown |-> maxDrawdown, maxDrawdownDate |-> maxDrawdownDate]
    ELSE LET value    == returns[d].portfolioValue
             newPeak  == IF value > peak THEN value ELSE peak
             deeper   == newPeak # 0 /\ RLess(maxDrawdown, Rat(newPeak - value, newPeak))
         IN  IF deeper
             THEN DrawdownScan(returns, d + 1, newPeak, Rat(newPeak - value, newPeak),
                               returns[d].date)
             ELSE DrawdownScan(returns, d + 1, newPeak, maxDrawdown, maxDrawdownDate)

\* let maxDrawdown = 0; let maxDrawdownDate = ''; let peak = performanceReturns[0].portfolioValue
MaxDrawdown(returns) == DrawdownScan(returns, 1, returns[1].portfolioValue, RInt(0), "")

\* new Date().toISOString().split('T')[0]
Today == "today"

\* the first branch of performanceMetrics: performanceReturns.length > 0.
\* With one row every division by (length - 1) is 0 / 0 = NaN, and
\* NaN > 0 is false.
MetricsFromReturns(returns) ==
    LET dailyReturns     == [d \in 1..Len(returns) |-> Rat(returns[d].dailyReturn, 100)]
        benchmarkReturns == [d \in 1..Len(returns) |-> Rat(returns[d].benchmarkReturn, 100)]
        oneRow           == Len(returns) = 1
        \* Math.pow(1 + 0 / 100, 1 / years) is 1
        annualizedReturn == RInt(0)
        meanReturn       == Mean(dailyReturns)
        volatility       == IF oneRow THEN NaN
                            ELSE RootScale(Annualized(SampleCovariance(dailyReturns,
                                                                       dailyReturns)),
                                           RInt(100))
        excessReturn     == RSub(meanReturn, DailyRiskFreeRate)
        downsideVolatility == Annualized(DownsideVariance(dailyReturns))
        benchmarkVariance == SampleCovariance(benchmarkReturns, benchmarkReturns)
        beta             == IF ~oneRow /\ benchmarkVariance[1] > 0
                            THEN RDiv(SampleCovariance(dailyReturns, benchmarkReturns),
                                      benchmarkVariance)
                            ELSE RInt(1)
    IN  [annualizedReturn |-> Root(annualizedReturn),
         volatility       |-> volatility,
         sharpeRatio      |-> Quotient(RMul(excessReturn, RInt(252)),
                                       RootScale(volatility, <<1, 100>>)),
         sortinoRatio     |-> IF RootPositive(downsideVolatility)
                              THEN DivByRoot(RMul(excessReturn, RInt(252)), downsideVolatility)
                              ELSE RootZero,
         maxDrawdown      |-> RMul(MaxDrawdown(returns).maxDrawdown, RInt(100)),
         maxDrawdownDate  |-> MaxDrawdown(returns).maxDrawdownDate,
         beta             |-> Root(beta),
         treynorRatio     |-> IF beta # RInt(0)
                              THEN Root(RDiv(RSub(annualizedReturn, RInt(2)), beta))
                              ELSE RootZero]

\* the second branch: metrics made up from the holdings' total return
MetricsFromPortfolio(portfolio) ==
    LET totalReturn == IF portfolio.totalCost > 0
                       THEN Rat((portfolio.totalValue - portfolio.totalCost) * 100,
                                portfolio.totalCost)
                       ELSE RInt(0)
    IN  [annualizedReturn |-> Root(RMul(totalReturn, <<12, 10>>)),
         volatility       |-> Root(RMax(RInt(8), RMul(<<Abs(totalReturn[1]), totalReturn[2]>>,
                                                      <<6, 10>>))),
         sharpeRatio      |-> Root(IF totalReturn[1] > 0 THEN <<12, 10>> ELSE <<-8, 10>>),
         sortinoRatio     |-> Root(IF totalReturn[1] > 0 THEN <<15, 10>> ELSE RInt(-1)),
         maxDrawdown      |-> RMax(RInt(5), RMul(<<Abs(totalReturn[1]), totalReturn[2]>>,
                                                 <<4, 10>>)),
         maxDrawdownDate  |-> Today,
         beta             |-> Root(RInt(1)),
         treynorRatio     |-> Root(IF totalReturn[1] > 0 THEN RInt(5) ELSE RInt(-3))]

\* the last branch: no data
ZeroMetrics ==
    [annualizedReturn |-> RootZero, volatility |-> RootZero, sharpeRatio |-> RootZero,
     sortinoRatio |-> RootZero, maxDrawdown |-> RInt(0), maxDrawdownDate |-> "",
     beta |-> Root(RInt(1)), treynorRatio |-> RootZero]

\* the useMemo over [performanceReturns, totalValue, holdings]
performanceMetrics(returns, portfolio) ==
    IF Len(returns) > 0 THEN MetricsFromReturns(returns)
    ELSE IF portfolio.totalValue > 0 /\ portfolio.holdings > 0
         THEN MetricsFromPortfolio(portfolio)
    ELSE ZeroMetrics

InitPerf ==
    /\ performanceReturns = <<>>
    /\ perfIsLoading = TRUE
    /\ perfPortfolio = [holdings |-> 0, totalCost |-> 0, totalValue |-> 0]
    /\ historyCall = FALSE

\* the effect over [holdings, portfolioLoading, totalValue, isConnected]:
\* fetchHistoricalData up to its await
fetchHistoricalData ==
    /\ ~historyCall
    /\ \E portfolio \in PortfolioChoices : perfPortfolio' = portfolio
    /\ perfIsLoading' = TRUE
    /\ historyCall' = TRUE
    /\ UNCHANGED performanceReturns
    /\ UNCHANGED <<optVars, enhVars, chartVars, riskVars, dashVars, appVars>>

\* historyData && historyData.length > 0
fetchHistoricalDataOk ==
    /\ historyCall
    /\ \E historyData \in Histories :
          performanceReturns' = calculatePerformanceReturns(historyData)
    /\ perfIsLoading' = FALSE
    /\ historyCall' = FALSE
    /\ UNCHANGED perfPortfolio
    /\ UNCHANGED <<optVars, enhVars, chartVars, riskVars, dashVars, appVars>>

\* no history on the server
fetchHistoricalDataEmpty ==
    /\ historyCall
    /\ performanceReturns' = <<>>
    /\ perfIsLoading' = FALSE
    /\ historyCall' = FALSE
    /\ UNCHANGED perfPortfolio
    /\ UNCHANGED <<optVars, enhVars, chartVars, riskVars, dashVars, appVars>>

\* catch (apiError)
fetchHistoricalDataFailed ==
    /\ historyCall
    /\ performanceReturns' = <<>>
    /\ perfIsLoading' = FALSE
    /\ historyCall' = FALSE
    /\ UNCHANGED perfPortfolio
    /\ UNCHANGED <<optVars, enhVars, chartVars, riskVars, dashVars, appVars>>

NextPerf ==
    \/ fetchHistoricalData
    \/ fetchHistoricalDataOk
    \/ fetchHistoricalDataEmpty
    \/ fetchHistoricalDataFailed

(***************************************************************************)
(* useRiskAnalysis(confidenceLevel, timeHorizon) and the risk page         *)
(***************************************************************************)
\* value and change_percent of a holding
RiskHoldingChoices == [value : {0, 100}, change_percent : {0, -2, 3}]

RiskHoldingLists == UNION {[1..n -> RiskHoldingChoices] : n \in 0..MaxRiskHoldings}

\* the options of the two selects of the page
ConfidenceLevels == {90, 95, 99}
TimeHorizons == {1, 5, 10, 21}

\* holdings.reduce((sum, h) => sum + (h.value || 0), 0)
TotalValue(hs) == RSumSeq([n \in 1..Len(hs) |-> RInt(hs[n].value)])

\* holding.change_percent ? Math.abs(holding.change_percent) * 0.01 : 0.02
StockVolatility(holding) ==
    IF holding.change_percent # 0
    THEN RMul(RInt(Abs(holding.change_percent)), <<1, 100>>)
    ELSE <<2, 100>>

\* the sum of weight * stockVolatility, for a totalValue other than 0
TotalVolatility(hs) ==
    RSumSeq([n \in 1..Len(hs) |->
        RMul(RDiv(RInt(hs[n].value), TotalValue(hs)), StockVolatility(hs[n]))])

\* a table read the wrong way round
ZScoreReversed(level) ==
    IF level = 90 THEN <<233, 100>> ELSE IF level = 95 THEN <<165, 100>> ELSE <<128, 100>>

\* confidenceLevel === 90 ? 1.28 : confidenceLevel === 95 ? 1.65 : 2.33
ZScore(level) ==
    IF level = 90 THEN <<128, 100>> ELSE IF level = 95 THEN <<165, 100>> ELSE <<233, 100>>

\* the useMemo over [holdings, totalValue, confidenceLevel, timeHorizon]
riskMetrics(hs, level, horizon) ==
    LET \* every weight is 0 / 0 = NaN when totalValue is 0
        portfolioVolatility == IF TotalValue(hs) = RInt(0) THEN NaN
                               ELSE RootScale(Sqrt(RInt(252)), TotalVolatility(hs))
        dailyVaR            == IF RootPositive(portfolioVolatility)
                               THEN RootScale(RootDiv(portfolioVolatility, Sqrt(RInt(252))),
                                              ZScore(level))
                               ELSE RootZero
        adjustedVaR         == RootMul(dailyVaR, Sqrt(RInt(horizon)))
    IN  IF Len(hs) = 0
        THEN [portfolioVaR |-> RootZero, portfolioVaRPercent |-> RootZero,
              portfolioCVaR |-> RootZero, portfolioCVaRPercent |-> RootZero,
              volatility |-> RootZero]
        ELSE [portfolioVaR         |-> RootScale(adjustedVaR, RDiv(TotalValue(hs), RInt(100))),
              portfolioVaRPercent  |-> adjustedVaR,
              portfolioCVaR        |-> RootScale(adjustedVaR,
                                           RMul(RDiv(TotalValue(hs), RInt(100)), <<13, 10>>)),
              portfolioCVaRPercent |-> RootScale(adjustedVaR, <<13, 10>>),
              volatility           |-> RootScale(portfolioVolatility, RInt(100))]

InitRisk ==
    /\ riskHoldings = <<>>
    /\ confidenceLevel = 95
    /\ timeHorizon = 1
    /\ riskCall = Null

\* usePortfolio delivers the holdings
RiskFetchHoldings ==
    /\ \E hs \in RiskHoldingLists :
          /\ hs # riskHoldings
          /\ riskHoldings' = hs
    /\ UNCHANGED <<confidenceLevel, timeHorizon, riskCall>>
    /\ UNCHANGED <<optVars, enhVars, chartVars, perfVars, dashVars, appVars>>

\* onChange of the confidence select
setConfidenceLevel ==
    /\ \E level \in ConfidenceLevels :
          /\ level # confidenceLevel
          /\ confidenceLevel' = level
    /\ UNCHANGED <<riskHoldings, timeHorizon, riskCall>>
    /\ UNCHANGED <<optVars, enhVars, chartVars, perfVars, dashVars, appVars>>

\* onChange of the horizon select
setTimeHorizon ==
    /\ \E horizon \in TimeHorizons :
          /\ horizon # timeHorizon
          /\ timeHorizon' = horizon
    /\ UNCHANGED <<riskHoldings, confidenceLevel, riskCall>>
    /\ UNCHANGED <<optVars, enhVars, chartVars, perfVars, dashVars, appVars>>

NextRisk ==
    \/ RiskFetchHoldings
    \/ setConfidenceLevel
    \/ setTimeHorizon

\* confidenceLevel: number of the hook's signature, as a caller other than
\* the risk page may pass it
HookConfidenceLevels == {50, 90, 95, 99, 100}

\* useRiskAnalysis(confidenceLevel, timeHorizon) called by a component
useRiskAnalysis ==
    /\ \E level \in HookConfidenceLevels, horizon \in TimeHorizons :
          /\ riskCall # [confidenceLevel |-> level, timeHorizon |-> horizon]
          /\ riskCall' = [confidenceLevel |-> level, timeHorizon |-> horizon]
    /\ UNCHANGED <<riskHoldings, confidenceLevel, timeHorizon>>
    /\ UNCHANGED <<optVars, enhVars, chartVars, perfVars, dashVars, appVars>>

NextRiskHook ==
    \/ RiskFetchHoldings
    \/ useRiskAnalysis

(***************************************************************************)
(* DashboardPage.tsx with AddAssetModal.tsx and usePortfolio.  The server  *)
(* behind apiService is not part of the front end: it may accept or        *)
(* refuse any request, and it returns the rows it has accepted.            *)
(***************************************************************************)
Digits == <<"0", "1", "2", "3", "4", "5", "6", "7", "8", "9">>

DigitValue(c) == (CHOOSE k \in 1..Len(Digits) : Digits[k] = c) - 1

\* the value of a run of digits after prefix digits worth acc
RECURSIVE DigitsValue(_, _)
DigitsValue(text, acc) ==
    IF text = <<>> THEN acc ELSE DigitsValue(Tail(text), 10 * acc + DigitValue(Head(text)))

RECURSIVE PowerOfTen(_)
PowerOfTen(n) == IF n = 0 THEN 1 ELSE 10 * PowerOfTen(n - 1)

\* digits, then optionally a point and digits
UnsignedValue(text) ==
    LET point == {k \in 1..Len(text) : text[k] = "."}
    IN  IF point = {} THEN RInt(DigitsValue(text, 0))
        ELSE LET k == CHOOSE k \in point : TRUE
             IN  RAdd(RInt(DigitsValue(SubSeq(text, 1, k - 1), 0)),
                      Rat(DigitsValue(SubSeq(text, k + 1, Len(text)), 0),
                          PowerOfTen(Len(text) - k)))

\* parseFloat of the value of an input of type number: the value is empty
\* or a valid floating-point number
ParseFloat(text) ==
    IF text = <<>> THEN NaN
    ELSE IF Head(text) = "-" THEN RNeg(UnsignedValue(Tail(text)))
    ELSE UnsignedValue(text)

\* what the user types into the quantity input (type="number" step="0.01")
QuantityTexts ==
    {<<>>, <<"-", "5">>, <<"0">>, <<"2", ".", "5">>, <<"1", "0">>}

\* response.holdings.map(item => ({ ..., quantity: item.quantity, ... }))
DashMappedHoldings(rows) == [n \in 1..Len(rows) |-> [quantity |-> rows[n].quantity]]

InitDash ==
    /\ showAddModal = FALSE
    /\ formQuantity = <<>>
    /\ isSubmitting = FALSE
    /\ dashHoldings = <<>>
    /\ serverHoldings = <<>>
    /\ addCall = Null
    /\ refreshDue = TRUE
    /\ onAddCalls = 0
    /\ lastSubmit = "none"

\* a form that submits whatever is in flight
NeverPrevented == FALSE

\* if (isSubmitting) return
PreventDoubleSubmission == isSubmitting

\* fetchHoldings after its await: setHoldings(mappedHoldings)
DashFetchHoldings ==
    /\ refreshDue
    /\ dashHoldings' = DashMappedHoldings(serverHoldings)
    /\ refreshDue' = FALSE
    /\ UNCHANGED <<showAddModal, formQuantity, isSubmitting, serverHoldings, addCall,
                   onAddCalls, lastSubmit>>
    /\ UNCHANGED <<optVars, enhVars, chartVars, perfVars, riskVars, appVars>>

\* onClick={() => setShowAddModal(true)}
openAddModal ==
    /\ ~showAddModal
    /\ showAddModal' = TRUE
    /\ UNCHANGED <<formQuantity, isSubmitting, dashHoldings, serverHoldings, addCall,
                   refreshDue, onAddCalls, lastSubmit>>
    /\ UNCHANGED <<optVars, enhVars, chartVars, perfVars, riskVars, appVars>>

\* onChange={(e) => handleInputChange('quantity', e.target.value)}
handleInputChange ==
    /\ showAddModal
    /\ \E text \in QuantityTexts :
          /\ text # formQuantity
          /\ formQuantity' = text
    /\ UNCHANGED <<showAddModal, isSubmitting, dashHoldings, serverHoldings, addCall,
                   refreshDue, onAddCalls, lastSubmit>>
    /\ UNCHANGED <<optVars, enhVars, chartVars, perfVars, riskVars, appVars>>

\* onSubmit of the form, whose quantity input is required: handleSubmit up
\* to its early return or to await onAdd(assetData), handleAddAsset and
\* addHolding up to the await of apiService.addHolding
handleSubmit ==
    /\ showAddModal
    /\ formQuantity # <<>>
    /\ IF PreventDoubleSubmission
       THEN /\ lastSubmit' = "ignored"
            /\ UNCHANGED <<isSubmitting, addCall, onAddCalls>>
       ELSE /\ isSubmitting' = TRUE
            /\ addCall' = [quantity |-> ParseFloat(formQuantity)]
            /\ onAddCalls' = onAddCalls + 1
            /\ lastSubmit' = "sent"
    /\ UNCHANGED <<showAddModal, formQuantity, dashHoldings, serverHoldings, refreshDue>>
    /\ UNCHANGED <<optVars, enhVars, chartVars, perfVars, riskVars, appVars>>

\* the server accepts the holding: addHolding returns true and schedules
\* fetchHoldings, handleAddAsset refreshes and closes the modal, and
\* handleSubmit clears the form
addHoldingOk ==
    /\ addCall # Null
    /\ Len(serverHoldings) < MaxServerRows
    /\ serverHoldings' = Append(serverHoldings, addCall)
    /\ refreshDue' = TRUE
    /\ showAddModal' = FALSE
    /\ formQuantity' = <<>>
    /\ isSubmitting' = FALSE
    /\ addCall' = Null
    /\ onAddCalls' = onAddCalls - 1
    /\ UNCHANGED <<dashHoldings, lastSubmit>>
    /\ UNCHANGED <<optVars, enhVars, chartVars, perfVars, riskVars, appVars>>

\* the request fails: addHolding sets the error and returns false, and the
\* modal stays open with its form
addHoldingFailed ==
    /\ addCall # Null
    /\ isSubmitting' = FALSE
    /\ addCall' = Null
    /\ onAddCalls' = onAddCalls - 1
    /\ UNCHANGED <<showAddModal, formQuantity, dashHoldings, serverHoldings, refreshDue,
                   lastSubmit>>
    /\ UNCHANGED <<optVars, enhVars, chartVars, perfVars, riskVars, appVars>>

NextDash ==
    \/ DashFetchHoldings
    \/ openAddModal
    \/ handleInputChange
    \/ handleSubmit
    \/ addHoldingOk
    \/ addHoldingFailed

(***************************************************************************)
(* services/websocket.ts: WebSocketService.                                *)
(* A socket is "connecting", "connected", "backoff" (the manager of        *)
(* socket.io retries by itself after a failed or lost connection),         *)
(* "disconnected" (the server closed it: only connect() reopens it) or     *)
(* "closed" (never created, or closed by the client).                      *)
(***************************************************************************)
maxReconnectAttempts == 5

SocketIds == 1..MaxSockets

InitWs ==
    /\ socket = 0
    /\ sockets = [s \in SocketIds |-> "closed"]
    /\ reconnectAttempts = 0
    /\ pendingTimers = 0
    /\ lastEvent = "none"

\* nothing stops a further reconnect
NeverExhausted == FALSE

\* if (this.reconnectAttempts >= this.maxReconnectAttempts) return
ReconnectExhausted == reconnectAttempts >= maxReconnectAttempts

\* this.socket?.connected
IsConnected == socket # 0 /\ sockets[socket] = "connected"

\* connect(token, userId): a new socket replaces the one held
Connect ==
    IF IsConnected
    THEN UNCHANGED wsVars
    ELSE /\ \E s \in SocketIds :
              /\ sockets[s] = "closed"
              /\ sockets' = [sockets EXCEPT ![s] = "connecting"]
              /\ socket' = s
         /\ UNCHANGED <<reconnectAttempts, pendingTimers, lastEvent>>

\* disconnect()
Disconnect ==
    IF socket # 0
    THEN /\ sockets' = [sockets EXCEPT ![socket] = "closed"]
         /\ socket' = 0
         /\ UNCHANGED <<reconnectAttempts, pendingTimers, lastEvent>>
    ELSE UNCHANGED wsVars

\* handleReconnect(), called with one more timer allowed by the bound
handleReconnect ==
    IF ReconnectExhausted
    THEN UNCHANGED <<reconnectAttempts, pendingTimers>>
    ELSE /\ pendingTimers < MaxTimers
         /\ reconnectAttempts' = reconnectAttempts + 1
         /\ pendingTimers' = pendingTimers + 1

\* a component calls websocketService.connect
connect ==
    /\ Connect
    /\ UNCHANGED <<pageVars, authVars, listenerVars, portfolioVars, searchVars, refreshVars>>

\* a component calls websocketService.disconnect
disconnect ==
    /\ socket # 0
    /\ Disconnect
    /\ UNCHANGED <<pageVars, authVars, listenerVars, portfolioVars, searchVars, refreshVars>>

\* this.socket.on('connect', ...), registered on socket s
onConnect(s) ==
    /\ sockets[s] = "connecting"
    /\ sockets' = [sockets EXCEPT ![s] = "connected"]
    /\ reconnectAttempts' = 0
    /\ lastEvent' = "connect"
    /\ UNCHANGED <<socket, pendingTimers>>
    /\ UNCHANGED <<pageVars, authVars, listenerVars, portfolioVars, searchVars, refreshVars>>

\* this.socket.on('connect_error', ...), registered on socket s
onConnectError(s) ==
    /\ sockets[s] = "connecting"
    /\ sockets' = [sockets EXCEPT ![s] = "backoff"]
    /\ handleReconnect
    /\ lastEvent' = "connect_error"
    /\ UNCHANGED socket
    /\ UNCHANGED <<pageVars, authVars, listenerVars, portfolioVars, searchVars, refreshVars>>

\* this.socket.on('disconnect', ...) with the reason 'io server disconnect'
onServerDisconnect(s) ==
    /\ sockets[s] = "connected"
    /\ sockets' = [sockets EXCEPT ![s] = "disconnected"]
    /\ handleReconnect
    /\ lastEvent' = "io server disconnect"
    /\ UNCHANGED socket
    /\ UNCHANGED <<pageVars, authVars, listenerVars, portfolioVars, searchVars, refreshVars>>

\* this.socket.on('disconnect', ...) with another reason: nothing is done
onTransportClose(s) ==
    /\ sockets[s] = "connected"
    /\ sockets' = [sockets EXCEPT ![s] = "backoff"]
    /\ lastEvent' = "transport close"
    /\ UNCHANGED <<socket, reconnectAttempts, pendingTimers>>
    /\ UNCHANGED <<pageVars, authVars, listenerVars, portfolioVars, searchVars, refreshVars>>

\* the manager of socket s retries (reconnection is not switched off by io())
managerRetry(s) ==
    /\ sockets[s] = "backoff"
    /\ sockets' = [sockets EXCEPT ![s] = "connecting"]
    /\ UNCHANGED <<socket, reconnectAttempts, pendingTimers, lastEvent>>
    /\ UNCHANGED <<pageVars, authVars, listenerVars, portfolioVars, searchVars, refreshVars>>

\* setTimeout(() => { this.socket?.connect() }, delay)
reconnectTimer ==
    /\ pendingTimers > 0
    /\ pendingTimers' = pendingTimers - 1
    /\ sockets' = IF socket # 0 /\ sockets[socket] = "disconnected"
                  THEN [sockets EXCEPT ![socket] = "connecting"]
                  ELSE sockets
    /\ lastEvent' = "reconnect timer"
    /\ UNCHANGED <<socket, reconnectAttempts>>
    /\ UNCHANGED <<pageVars, authVars, listenerVars, portfolioVars, searchVars, refreshVars>>

NextWs ==
    \/ connect
    \/ disconnect
    \/ \E s \in SocketIds : onConnect(s)
    \/ \E s \in SocketIds : onConnectError(s)
    \/ \E s \in SocketIds : onServerDisconnect(s)
    \/ \E s \in SocketIds : onTransportClose(s)
    \/ \E s \in SocketIds : managerRetry(s)
    \/ reconnectTimer

(***************************************************************************)
(* contexts/AuthContext.tsx (AuthProvider), the token of ApiService and    *)
(* ProtectedRoute.                                                         *)
(***************************************************************************)
NoUser == ""
NoToken == ""
SessionToken == "jwt"
SessionUser == "user"

\* the first page load, without a token in localStorage: checkAuth has run
InitAuth ==
    /\ user = NoUser
    /\ isLoading = FALSE
    /\ apiToken = NoToken
    /\ storedToken = NoToken
    /\ checkCall = "done"
    /\ authCall = "none"
    /\ logoutCall = "none"

\* the page is loaded again with this token in localStorage, which is all
\* that is kept: ApiService reads it, and checkAuth runs up to its await,
\* or to its end when there is no token
Reload(token) ==
    /\ storedToken' = token
    /\ apiToken' = token
    /\ user' = NoUser
    /\ isLoading' = (token # NoToken)
    /\ checkCall' = IF token # NoToken THEN "waiting" ELSE "done"
    /\ authCall' = "none"
    /\ logoutCall' = "none"
    /\ socket' = 0
    /\ sockets' = [s \in SocketIds |-> "closed"]
    /\ reconnectAttempts' = 0
    /\ pendingTimers' = 0
    /\ lastEvent' = "none"

\* a route that renders its children whenever the check is not loading
RouteWithoutRedirect == IF isLoading THEN "spinner" ELSE "children"

\* what ProtectedRoute renders
ProtectedRoute ==
    IF isLoading THEN "spinner"
    ELSE IF user = NoUser THEN "login"
    ELSE "children"

\* apiService.getCurrentUser() resolves
checkAuthOk ==
    /\ checkCall = "waiting"
    /\ user' = SessionUser
    /\ Connect
    /\ isLoading' = FALSE
    /\ checkCall' = "done"
    /\ UNCHANGED <<apiToken, storedToken, authCall, logoutCall>>
    /\ UNCHANGED <<pageVars, listenerVars, portfolioVars, searchVars, refreshVars>>

\* apiService.getCurrentUser() rejects, with another status than 401
checkAuthFailed ==
    /\ checkCall = "waiting"
    /\ storedToken' = NoToken
    /\ user' = NoUser
    /\ isLoading' = FALSE
    /\ checkCall' = "done"
    /\ UNCHANGED <<apiToken, authCall, logoutCall>>
    /\ UNCHANGED <<pageVars, wsVars, listenerVars, portfolioVars, searchVars, refreshVars>>

\* a request is answered with 401: clearToken(), and
\* window.location.href = '/login' loads the page again
unauthorized ==
    /\ \/ checkCall = "waiting"
       \/ authCall # "none"
       \/ logoutCall \in {"in flight", "stale"}
    /\ Reload(NoToken)
    /\ UNCHANGED <<pageVars, listenerVars, portfolioVars, searchVars, refreshVars>>

\* login(email, password) and signup(email, password, name) up to their await,
\* called by the form of the login page: the page redirects when a user is
\* set and its button is disabled while isLoading
login ==
    /\ authCall = "none"
    /\ user = NoUser
    /\ ~isLoading
    /\ isLoading' = TRUE
    /\ authCall' = "login"
    /\ UNCHANGED <<user, apiToken, storedToken, checkCall, logoutCall>>
    /\ UNCHANGED <<pageVars, wsVars, listenerVars, portfolioVars, searchVars, refreshVars>>

signup ==
    /\ authCall = "none"
    /\ user = NoUser
    /\ ~isLoading
    /\ isLoading' = TRUE
    /\ authCall' = "signup"
    /\ UNCHANGED <<user, apiToken, storedToken, checkCall, logoutCall>>
    /\ UNCHANGED <<pageVars, wsVars, listenerVars, portfolioVars, searchVars, refreshVars>>

\* apiService.login or apiService.register resolves: setToken(response.token),
\* setUser(response.user), websocketService.connect(...)
authOk ==
    /\ authCall # "none"
    /\ apiToken' = SessionToken
    /\ storedToken' = SessionToken
    /\ user' = SessionUser
    /\ Connect
    /\ isLoading' = FALSE
    /\ authCall' = "none"
    /\ logoutCall' = IF logoutCall \in {"in flight", "stale"} THEN "stale" ELSE "none"
    /\ UNCHANGED checkCall
    /\ UNCHANGED <<pageVars, listenerVars, portfolioVars, searchVars, refreshVars>>

\* apiService.login or apiService.register rejects, with another status than 401
authFailed ==
    /\ authCall # "none"
    /\ isLoading' = FALSE
    /\ authCall' = "none"
    /\ UNCHANGED <<user, apiToken, storedToken, checkCall, logoutCall>>
    /\ UNCHANGED <<pageVars, wsVars, listenerVars, portfolioVars, searchVars, refreshVars>>

\* logout(): the request is sent, the socket closed and the user unset
logout ==
    /\ user # NoUser
    /\ logoutCall \notin {"in flight", "stale"}
    /\ logoutCall' = "in flight"
    /\ Disconnect
    /\ user' = NoUser
    /\ UNCHANGED <<isLoading, apiToken, storedToken, checkCall, authCall>>
    /\ UNCHANGED <<pageVars, listenerVars, portfolioVars, searchVars, refreshVars>>

\* the request of apiService.logout resolves: clearToken()
logoutOk ==
    /\ logoutCall \in {"in flight", "stale"}
    /\ apiToken' = NoToken
    /\ storedToken' = NoToken
    /\ logoutCall' = IF logoutCall = "stale" THEN "none" ELSE "ok"
    /\ UNCHANGED <<user, isLoading, checkCall, authCall>>
    /\ UNCHANGED <<pageVars, wsVars, listenerVars, portfolioVars, searchVars, refreshVars>>

\* the request of apiService.logout rejects, with another status than 401:
\* the error is logged by .catch(console.error)
logoutFailed ==
    /\ logoutCall \in {"in flight", "stale"}
    /\ logoutCall' = IF logoutCall = "stale" THEN "none" ELSE "failed"
    /\ UNCHANGED <<user, isLoading, apiToken, storedToken, checkCall, authCall>>
    /\ UNCHANGED <<pageVars, wsVars, listenerVars, portfolioVars, searchVars, refreshVars>>

\* the user loads the page again
reload ==
    /\ Reload(storedToken)
    /\ UNCHANGED <<pageVars, listenerVars, portfolioVars, searchVars, refreshVars>>

NextAuth ==
    \/ checkAuthOk
    \/ checkAuthFailed
    \/ unauthorized
    \/ login
    \/ signup
    \/ authOk
    \/ authFailed
    \/ logout
    \/ logoutOk
    \/ logoutFailed
    \/ reload
    \/ \E s \in SocketIds : onConnect(s)
    \/ \E s \in SocketIds : onConnectError(s)
    \/ \E s \in SocketIds : onServerDisconnect(s)
    \/ \E s \in SocketIds : onTransportClose(s)
    \/ \E s \in SocketIds : managerRetry(s)
    \/ reconnectTimer

(***************************************************************************)
(* services/websocket.ts: the event emitter (on, off, emit) and the        *)
(* callbacks useRealTimeData and useMarketData register.                   *)
(***************************************************************************)
Events == {"marketUpdate", "portfolioUpdate"}
Callbacks == {"handleUpdate", "handleMarketUpdate"}

InitListeners ==
    /\ eventListeners = [e \in Events |-> <<>>]
    /\ lastCall = [op |-> "none"]
    /\ invoked = <<>>

\* the list without the first registration of the callback
RemoveFirst(listeners, callback) ==
    LET first == CHOOSE n \in 1..(Len(listeners) + 1) :
                     /\ n <= Len(listeners) => listeners[n] = callback
                     /\ \A k \in 1..(n - 1) : listeners[k] # callback
    IN  [k \in 1..(Len(listeners) - (IF first <= Len(listeners) THEN 1 ELSE 0)) |->
            IF k < first THEN listeners[k] ELSE listeners[k + 1]]

\* this.eventListeners[event].filter((listener) => listener !== callback)
Filter(listeners, callback) == SelectSeq(listeners, LAMBDA listener : listener # callback)

\* on(event, callback)
on(event, callback) ==
    /\ Len(eventListeners[event]) < MaxListeners
    /\ eventListeners' = [eventListeners EXCEPT ![event] = Append(@, callback)]
    /\ lastCall' = [op |-> "on", event |-> event, callback |-> callback,
                    before |-> eventListeners[event]]
    /\ invoked' = <<>>
    /\ UNCHANGED <<pageVars, wsVars, authVars, portfolioVars, searchVars, refreshVars>>

\* off(event, callback)
off(event, callback) ==
    /\ eventListeners' = [eventListeners EXCEPT ![event] = Filter(@, callback)]
    /\ lastCall' = [op |-> "off", event |-> event, callback |-> callback,
                    before |-> eventListeners[event]]
    /\ invoked' = <<>>
    /\ UNCHANGED <<pageVars, wsVars, authVars, portfolioVars, searchVars, refreshVars>>

\* emit(event, data), called by the handlers of setupEventListeners
emit(event) ==
    /\ invoked' = eventListeners[event]
    /\ lastCall' = [op |-> "emit", event |-> event, before |-> eventListeners[event]]
    /\ UNCHANGED eventListeners
    /\ UNCHANGED <<pageVars, wsVars, authVars, portfolioVars, searchVars, refreshVars>>

NextListeners ==
    \/ \E event \in Events, callback \in Callbacks : on(event, callback)
    \/ \E event \in Events, callback \in Callbacks : off(event, callback)
    \/ \E event \in Events : emit(event)

(***************************************************************************)
(* usePortfolio: fetchHoldings and the calls that refresh the holdings.    *)
(* The rows of the server are known by their version, and the holdings in  *)
(* state by the version they show and the call of fetchHoldings that set   *)
(* them.                                                                   *)
(***************************************************************************)
InitPortfolio ==
    /\ portfolioHoldings = [fetch |-> 0, rows |-> 0]
    /\ portfolioRows = 0
    /\ issued = 1
    /\ getHoldingsCalls = {[fetch |-> 1, rows |-> -1]}
    /\ mutationCall = "none"
    /\ refreshTimers = 0

\* fetchHoldings() up to the await of apiService.getHoldings()
FetchIssued ==
    /\ issued < MaxIssued
    /\ issued' = issued + 1
    /\ getHoldingsCalls' = getHoldingsCalls \cup {[fetch |-> issued + 1, rows |-> -1]}

\* addHolding, updateHolding or removeHolding up to the await of the request
changeHolding(kind) ==
    /\ mutationCall = "none"
    /\ mutationCall' = kind
    /\ UNCHANGED <<portfolioHoldings, portfolioRows, issued, getHoldingsCalls, refreshTimers>>
    /\ UNCHANGED <<pageVars, wsVars, authVars, listenerVars, searchVars, refreshVars>>

\* the request resolves: addHolding sets the timer of its refresh,
\* updateHolding and removeHolding call fetchHoldings
changeHoldingOk ==
    /\ mutationCall # "none"
    /\ portfolioRows < MaxChanges
    /\ portfolioRows' = portfolioRows + 1
    /\ mutationCall' = "none"
    /\ IF mutationCall = "addHolding"
       THEN /\ refreshTimers + Cardinality(getHoldingsCalls) < MaxFetches
            /\ refreshTimers' = refreshTimers + 1
            /\ UNCHANGED <<issued, getHoldingsCalls>>
       ELSE /\ Cardinality(getHoldingsCalls) + refreshTimers < MaxFetches
            /\ FetchIssued
            /\ UNCHANGED refreshTimers
    /\ UNCHANGED portfolioHoldings
    /\ UNCHANGED <<pageVars, wsVars, authVars, listenerVars, searchVars, refreshVars>>

\* the request rejects: the error is set
changeHoldingFailed ==
    /\ mutationCall # "none"
    /\ mutationCall' = "none"
    /\ UNCHANGED <<portfolioHoldings, portfolioRows, issued, getHoldingsCalls, refreshTimers>>
    /\ UNCHANGED <<pageVars, wsVars, authVars, listenerVars, searchVars, refreshVars>>

\* setTimeout(async () => { await fetchHoldings() }, 500)
refreshTimer ==
    /\ refreshTimers > 0
    /\ refreshTimers' = refreshTimers - 1
    /\ FetchIssued
    /\ UNCHANGED <<portfolioHoldings, portfolioRows, mutationCall>>
    /\ UNCHANGED <<pageVars, wsVars, authVars, listenerVars, searchVars, refreshVars>>

\* refreshHoldings(), which is fetchHoldings
refreshHoldings ==
    /\ Cardinality(getHoldingsCalls) + refreshTimers < MaxFetches
    /\ FetchIssued
    /\ UNCHANGED <<portfolioHoldings, portfolioRows, mutationCall, refreshTimers>>
    /\ UNCHANGED <<pageVars, wsVars, authVars, listenerVars, searchVars, refreshVars>>

\* the server answers a call of getHoldings with the rows it holds
getHoldingsServed(fetch) ==
    /\ [fetch |-> fetch, rows |-> -1] \in getHoldingsCalls
    /\ getHoldingsCalls' = (getHoldingsCalls \ {[fetch |-> fetch, rows |-> -1]})
                              \cup {[fetch |-> fetch, rows |-> portfolioRows]}
    /\ UNCHANGED <<portfolioHoldings, portfolioRows, issued, mutationCall, refreshTimers>>
    /\ UNCHANGED <<pageVars, wsVars, authVars, listenerVars, searchVars, refreshVars>>

\* fetchHoldings after its await: setHoldings(mappedHoldings)
fetchHoldingsOk(fetch) ==
    /\ \E call \in getHoldingsCalls :
          /\ call.fetch = fetch
          /\ call.rows # -1
          /\ portfolioHoldings' = call
          /\ getHoldingsCalls' = getHoldingsCalls \ {call}
    /\ UNCHANGED <<portfolioRows, issued, mutationCall, refreshTimers>>
    /\ UNCHANGED <<pageVars, wsVars, authVars, listenerVars, searchVars, refreshVars>>

\* fetchHoldings after its await, in the catch: the holdings stay
fetchHoldingsFailed(fetch) ==
    /\ \E call \in getHoldingsCalls :
          /\ call.fetch = fetch
          /\ getHoldingsCalls' = getHoldingsCalls \ {call}
    /\ UNCHANGED <<portfolioHoldings, portfolioRows, issued, mutationCall, refreshTimers>>
    /\ UNCHANGED <<pageVars, wsVars, authVars, listenerVars, searchVars, refreshVars>>

NextPortfolio ==
    \/ \E kind \in {"addHolding", "updateHolding", "removeHolding"} : changeHolding(kind)
    \/ changeHoldingOk
    \/ changeHoldingFailed
    \/ refreshTimer
    \/ refreshHoldings
    \/ \E fetch \in 1..MaxIssued : getHoldingsServed(fetch)
    \/ \E fetch \in 1..MaxIssued : fetchHoldingsOk(fetch)
    \/ \E fetch \in 1..MaxIssued : fetchHoldingsFailed(fetch)

(***************************************************************************)
(* AddAssetModal.tsx: the debounced search of the symbol input.            *)
(***************************************************************************)
\* what the symbol input can hold
SymbolTexts == {"", "A", "AB", "ABC"}

InitSearch ==
    /\ formSymbol = ""
    /\ searchTimeout = "none"
    /\ searchCalls = {}
    /\ searchResults = ""

\* handleSymbolChange(value): the pending timer is cleared and a new one set
handleSymbolChange(value) ==
    /\ value # formSymbol
    /\ formSymbol' = value
    /\ searchTimeout' = value
    /\ UNCHANGED <<searchCalls, searchResults>>
    /\ UNCHANGED <<pageVars, wsVars, authVars, listenerVars, portfolioVars, refreshVars>>

\* the timer runs searchStocks(value) up to its return or its await
searchStocks ==
    /\ searchTimeout # "none"
    /\ searchTimeout' = "none"
    /\ IF searchTimeout = ""
       THEN /\ searchResults' = ""
            /\ UNCHANGED searchCalls
       ELSE /\ searchCalls' = searchCalls \cup {searchTimeout}
            /\ UNCHANGED searchResults
    /\ UNCHANGED formSymbol
    /\ UNCHANGED <<pageVars, wsVars, authVars, listenerVars, portfolioVars, refreshVars>>

\* the search resolves: setSearchResults(results)
searchStocksOk(query) ==
    /\ query \in searchCalls
    /\ searchCalls' = searchCalls \ {query}
    /\ searchResults' = query
    /\ UNCHANGED <<formSymbol, searchTimeout>>
    /\ UNCHANGED <<pageVars, wsVars, authVars, listenerVars, portfolioVars, refreshVars>>

\* the search rejects: setSearchResults([])
searchStocksFailed(query) ==
    /\ query \in searchCalls
    /\ searchCalls' = searchCalls \ {query}
    /\ searchResults' = ""
    /\ UNCHANGED <<formSymbol, searchTimeout>>
    /\ UNCHANGED <<pageVars, wsVars, authVars, listenerVars, portfolioVars, refreshVars>>

NextSearch ==
    \/ \E value \in SymbolTexts : handleSymbolChange(value)
    \/ searchStocks
    \/ \E query \in SymbolTexts : searchStocksOk(query)
    \/ \E query \in SymbolTexts : searchStocksFailed(query)

(***************************************************************************)
(* useRealTimeData (part_006) and the data refresh interval of             *)
(* SettingsPage.tsx.  Intervals are in minutes.                            *)
(***************************************************************************)
\* the options of the select of the settings page
RefreshOptions == {1, 5, 15, 30, 60}

\* parseInt(localStorage.getItem('dataRefreshInterval') || '5')
SavedInterval == IF dataRefreshInterval = 0 THEN 5 ELSE dataRefreshInterval

InitRefresh ==
    /\ mounted = FALSE
    /\ isDemoMode = FALSE
    /\ refreshInterval = 5
    /\ dataRefreshInterval = 0
    /\ dataRefresh = 5
    /\ refreshIntervalId = 0
    /\ hookConnected = FALSE
    /\ hasSymbols = FALSE
    /\ settingsChanged = FALSE
    /\ ticks = 0

\* the effect on [refreshInterval, isConnected, marketData.size, isDemoMode]
\* of a hook in live mode: the interval is cleared, and set when the hook
\* is connected and has symbols
PollingInterval(interval, connected, symbols) ==
    IF connected /\ symbols THEN interval ELSE 0

\* the settings page is reached on any route
AnyRoute == TRUE

\* the settings page is the route shown: the pages that use the hook are
\* other routes of the same Outlet, so that none of them is mounted
SettingsPageShown == ~mounted

\* the route of a page using the hook is shown, in demo mode or in live mode
mountHook(demo, connected) ==
    /\ ~mounted
    /\ mounted' = TRUE
    /\ isDemoMode' = demo
    /\ refreshInterval' = SavedInterval
    /\ hookConnected' = (demo \/ connected)
    /\ hasSymbols' = demo
    /\ refreshIntervalId' = IF demo THEN SavedInterval
                            ELSE PollingInterval(SavedInterval, connected, FALSE)
    /\ ticks' = 0
    /\ UNCHANGED <<dataRefreshInterval, dataRefresh, settingsChanged>>
    /\ UNCHANGED <<pageVars, wsVars, authVars, listenerVars, portfolioVars, searchVars>>

\* another route is shown: the cleanup of the effects
unmountHook ==
    /\ mounted
    /\ mounted' = FALSE
    /\ refreshIntervalId' = 0
    /\ ticks' = 0
    /\ UNCHANGED <<isDemoMode, refreshInterval, dataRefreshInterval, dataRefresh,
                   hookConnected, hasSymbols, settingsChanged>>
    /\ UNCHANGED <<pageVars, wsVars, authVars, listenerVars, portfolioVars, searchVars>>

\* handleMarketUpdate: the first symbol arrives over the socket
handleMarketUpdate ==
    /\ mounted
    /\ ~isDemoMode
    /\ ~hasSymbols
    /\ hasSymbols' = TRUE
    /\ refreshIntervalId' = PollingInterval(refreshInterval, hookConnected, TRUE)
    /\ UNCHANGED <<mounted, isDemoMode, refreshInterval, dataRefreshInterval, dataRefresh,
                   hookConnected, settingsChanged, ticks>>
    /\ UNCHANGED <<pageVars, wsVars, authVars, listenerVars, portfolioVars, searchVars>>

\* handleRefreshIntervalChange of a mounted hook, then the effect that
\* depends on refreshInterval when its value has changed
IntervalAfterEvent(value, running) ==
    IF ~mounted \/ value = refreshInterval \/ isDemoMode THEN running
    ELSE PollingInterval(value, hookConnected, hasSymbols)

\* loadSettings of the settings page resolves
loadSettings(value) ==
    /\ SettingsPageShown
    /\ dataRefresh' = value
    /\ dataRefreshInterval' = value
    /\ refreshInterval' = IF mounted THEN value ELSE refreshInterval
    /\ refreshIntervalId' = IntervalAfterEvent(value, refreshIntervalId)
    /\ UNCHANGED <<mounted, isDemoMode, hookConnected, hasSymbols, settingsChanged, ticks>>
    /\ UNCHANGED <<pageVars, wsVars, authVars, listenerVars, portfolioVars, searchVars>>

\* handlePreferenceChange('dataRefresh', value): the interval of
\* window.refreshIntervalId is cleared and the event dispatched
handlePreferenceChange(value) ==
    /\ SettingsPageShown
    /\ value # dataRefresh
    /\ dataRefresh' = value
    /\ dataRefreshInterval' = value
    /\ refreshInterval' = IF mounted THEN value ELSE refreshInterval
    /\ refreshIntervalId' = IntervalAfterEvent(value, 0)
    /\ settingsChanged' = TRUE
    /\ ticks' = 0
    /\ UNCHANGED <<mounted, isDemoMode, hookConnected, hasSymbols>>
    /\ UNCHANGED <<pageVars, wsVars, authVars, listenerVars, portfolioVars, searchVars>>

\* the callback of setInterval runs
refreshTick ==
    /\ refreshIntervalId # 0
    /\ ticks < MaxTicks
    /\ ticks' = ticks + 1
    /\ UNCHANGED <<mounted, isDemoMode, refreshInterval, dataRefreshInterval, dataRefresh,
                   refreshIntervalId, hookConnected, hasSymbols, settingsChanged>>
    /\ UNCHANGED <<pageVars, wsVars, authVars, listenerVars, portfolioVars, searchVars>>

NextRefresh ==
    \/ \E demo \in BOOLEAN, connected \in BOOLEAN : mountHook(demo, connected)
    \/ unmountHook
    \/ handleMarketUpdate
    \/ \E value \in RefreshOptions : loadSettings(value)
    \/ \E value \in RefreshOptions : handlePreferenceChange(value)
    \/ refreshTick

Init ==
    /\ InitOpt /\ InitEnh /\ InitChart /\ InitPerf /\ InitRisk /\ InitDash
    /\ InitWs /\ InitAuth /\ InitListeners /\ InitPortfolio /\ InitSearch
    /\ InitRefresh

SpecOpt == Init /\ [][NextOpt]_vars

SpecEnh == Init /\ [][NextEnh]_vars

SpecPerf == Init /\ [][NextPerf]_vars

SpecRisk == Init /\ [][NextRisk]_vars

SpecDash == Init /\ [][NextDash]_vars

SpecWs == Init /\ [][NextWs]_vars

SpecAuth == Init /\ [][NextAuth]_vars

SpecListeners == Init /\ [][NextListeners]_vars

SpecPortfolio == Init /\ [][NextPortfolio]_vars

SpecSearch == Init /\ [][NextSearch]_vars

SpecRefresh == Init /\ [][NextRefresh]_vars

SpecRiskHook == Init /\ [][NextRiskHook]_vars

(***************************************************************************)
(* Claims about OptimizationPage.tsx                                       *)
(***************************************************************************)
Shown == showResults /\ optimizationResult # Null

\* sum of the minimum sizes above 100%, or sum of the maximum sizes below 100%
InfeasibleConstraints(hs, c) ==
    \/ Len(hs) * c.minPositionSize > 100
    \/ Len(hs) * c.maxPositionSize < 100

SumsTo100(result) ==
    RSumSeq(result.allocations) = RInt(100)

WithinBox(result, c) ==
    \A i \in DOMAIN result.allocations :
        /\ RLeq(RInt(c.minPositionSize), result.allocations[i])
        /\ RLeq(result.allocations[i], RInt(c.maxPositionSize))

FlaggedInfeasible(result) ==
    /\ "feasible" \in DOMAIN result
    /\ result.feasible = FALSE

FlaggedApproximate(result) ==
    /\ "approximate" \in DOMAIN result
    /\ result.approximate = TRUE

\* C1: a result computed under an infeasible constraint set carries
\* feasible=false and a diagnostic message, and is not a vector that is
\* normalized to 100% while violating the position bounds.
C1_InfeasibleRejected ==
    (Shown /\ InfeasibleConstraints(resultInputs.holdings, resultInputs.constraints))
        => /\ FlaggedInfeasible(optimizationResult)
           /\ "message" \in DOMAIN optimizationResult
           /\ ~(SumsTo100(optimizationResult)
                 /\ ~WithinBox(optimizationResult, resultInputs.constraints))

\* the clamp of runMeanVarianceOptimization changed at least one weight
ClampBinds(hs, c) ==
    \E i \in 1..Len(hs) : ClampedWeight(hs, i, c) # BaseWeight(hs, i)

\* C3: a result whose weights come from clamping to the position bounds and
\* renormalizing is flagged feasible=false or approximate=true.
C3_ClampedIsFlagged ==
    (/\ Shown
     /\ optimizationResult.method = "mean-variance"
     /\ ClampBinds(resultInputs.holdings, resultInputs.constraints))
        => (FlaggedInfeasible(optimizationResult) \/ FlaggedApproximate(optimizationResult))

\* what method reports for the holdings and constraints of the result shown
ResultOf(method) ==
    Optimize(method, resultInputs.holdings, resultInputs.constraints)

\* C9: the expected volatility of the result shown is the portfolio risk of
\* the result's own weights under the covariance estimate of its holdings.
\* The estimate belongs to the holdings and not to the method, so the
\* risk is a function of the weights: every optimizer that reports the same
\* weights for these holdings reports the same expected volatility.
C9_VolatilityIsRiskOfWeights ==
    Shown => \A method \in OPTIMIZATION_METHODS :
                 ResultOf(method).allocations = optimizationResult.allocations
                     => ResultOf(method).expectedVolatility
                            = optimizationResult.expectedVolatility

(***************************************************************************)
(* Claims on EnhancedOptimizationPage.tsx and EfficientFrontierChart.tsx   *)
(***************************************************************************)
\* the position sizes of the page admit a fully invested portfolio
FeasibleChartConstraints ==
    /\ NumAssets(portfolioData) * enhConstraints.minPositionSize <= 100
    /\ NumAssets(portfolioData) * enhConstraints.maxPositionSize >= 100

WeightsWithinBounds(weights, c) ==
    \A i \in 1..Len(weights) :
        /\ RLeq(Rat(c.minPositionSize, 100), weights[i])
        /\ RLeq(weights[i], Rat(c.maxPositionSize, 100))

\* C2: every sampled portfolio has weights that sum to 1 and that each lie
\* within [minPositionSize, maxPositionSize] of the constraints it was
\* sampled under, whenever those constraints can be met at all.
C2_WeightsSumToOneWithinBounds ==
    FeasibleChartConstraints =>
        \A p \in 1..Len(randomPortfolios) :
            /\ RSumSeq(randomPortfolios[p].weights) = RInt(1)
            /\ WeightsWithinBounds(randomPortfolios[p].weights, enhConstraints)

\* the assets do not all have the same expected return
DistinctReturns ==
    \E i, j \in 1..NumAssets(portfolioData) :
        portfolioData.returns[i] # portfolioData.returns[j]

\* C4: the stored frontier is strictly sorted by ascending risk: each
\* point has strictly greater risk than the point before it (stated for
\* portfolios whose assets differ in expected return, where the target
\* returns of the points differ).
C4_FrontierStrictlyAscendingRisk ==
    DistinctReturns =>
        \A i \in 1..(Len(frontierPoints) - 1) :
            RootGreater(frontierPoints[i + 1].risk, frontierPoints[i].risk)

OptimalPoints == {i \in 1..Len(frontierPoints) : frontierPoints[i].isOptimal}

\* C5: a stored frontier has exactly one point flagged optimal, and no
\* point of the frontier has a greater Sharpe ratio than the flagged one.
C5_OneOptimalMaxSharpe ==
    frontierPoints # <<>> =>
        /\ Cardinality(OptimalPoints) = 1
        /\ \A i \in OptimalPoints :
           \A j \in 1..Len(frontierPoints) :
              ~RootGreater(frontierPoints[j].sharpeRatio, frontierPoints[i].sharpeRatio)

\* a stored frontier whose points differ in Sharpe ratio: the flagged
\* point has a greater one than the last point
C5_Witness ==
    /\ frontierPoints # <<>>
    /\ \E i \in OptimalPoints :
          RootGreater(frontierPoints[i].sharpeRatio,
                      frontierPoints[Len(frontierPoints)].sharpeRatio)

Quiescent == builds = <<>> /\ fetches = <<>>

\* C7: once no frontier build and no optimize request is in flight, the
\* frontier displayed was stored by the latest build requested and the
\* optimization result displayed came from the latest request made: no
\* earlier request's outcome has arrived late and stayed.
C7_LatestRequestWins ==
    Quiescent =>
        /\ frontierOrigin # "earlier"
        /\ resultOrigin.kind \in {"server", "mock"} => resultOrigin.latest

\* builds overlapped, all have finished, and a second optimize request has
\* been answered
C7_Witness ==
    /\ Quiescent
    /\ resubmitted
    /\ frontierOrigin = "latest"
    /\ resultOrigin = [kind |-> "server", latest |-> TRUE]
    /\ selectedPoint # Null

\* the frontier stored is what a frontier build returned for some data
StoredByFrontierBuild ==
    \/ frontierPoints = <<>>
    \/ \E data \in AllPortfolioData : frontierPoints = FrontierOf[data].points

\* C14: the sampled portfolios stay apart from the solved frontier: the
\* frontier stored is the outcome of a frontier build, no sampled
\* portfolio is flagged optimal, and the result shown is never a selection
\* of a sampled portfolio.
C14_CloudNeverConflated ==
    /\ StoredByFrontierBuild
    /\ \A p \in 1..Len(randomPortfolios) : ~randomPortfolios[p].isOptimal
    /\ resultOrigin.kind # "cloud-selection"

\* sampled portfolios and a frontier are on display, and a point of the
\* frontier has been selected
C14_Witness ==
    /\ randomPortfolios # <<>>
    /\ frontierPoints # <<>>
    /\ selectedPoint # Null
    /\ enhShowResults
    /\ resultOrigin.kind = "selection"

\* numPoints below 2
TooFewPoints == {-1, 0, 1}

\* C15: a frontier build of the portfolio data with fewer than 2 target
\* levels is refused: it ends in its catch block and hands no points to
\* setFrontierPoints.
C15_TooFewPointsRejected ==
    NumAssets(portfolioData) > 0 =>
        \A numPoints \in TooFewPoints :
            /\ generateEfficientFrontier(portfolioData, numPoints).threw
            /\ generateEfficientFrontier(portfolioData, numPoints).points = <<>>

\* for data of which the build with the usual number of target levels has
\* stored a frontier, the build with one target level stores none
C15_Witness ==
    /\ NumAssets(portfolioData) > 0
    /\ frontierPoints # <<>>
    /\ frontierPoints = FrontierOf[portfolioData].points
    /\ generateEfficientFrontier(portfolioData, 1).threw

\* C16: the covariance matrix of portfolioData is symmetric and its
\* diagonal entries are 0 or more.
C16_CovarianceSymmetric ==
    \A i, j \in 1..NumAssets(portfolioData) :
        /\ portfolioData.covariance[i][j] = portfolioData.covariance[j][i]
        /\ portfolioData.covariance[i][i][1] >= 0

\* C17: the expected returns and the covariance matrix are a function of
\* the holdings: any computation of portfolioData for the holdings of the
\* page yields the values the page has.
C17_EstimationIsPure ==
    enhHoldings # <<>> =>
        \A stream \in DrawStreams : PortfolioData(enhHoldings, stream) = portfolioData

\* C8: a failed optimize request never leaves a made-up result on display.
C8_FailureShowsNoResult == ~(enhShowResults /\ resultOrigin.kind = "mock")

\* w_i proportional to 1 / variance_i, in percent
InverseVarianceWeights(variances) ==
    Normalize([i \in 1..Len(variances) |-> RDiv(RInt(1), variances[i])], variances)

\* the scenario of three uncorrelated assets, and the weights expected of it
ScenarioVariances == <<(<<4, 100>>), (<<1, 100>>), (<<9, 100>>)>>
ScenarioWeights == <<(<<1579, 100>>), (<<6316, 100>>), (<<2105, 100>>)>>

\* allocations and weights (both in percent) differ by at most 0.01
CloseTo(allocations, weights) ==
    /\ Len(allocations) = Len(weights)
    /\ \A i \in 1..Len(weights) :
          /\ RLeq(RSub(allocations[i], weights[i]), <<1, 100>>)
          /\ RLeq(RSub(weights[i], allocations[i]), <<1, 100>>)

\* C18: for three assets the minimum-volatility optimizer returns weights
\* inversely proportional to the variances 0.04, 0.01 and 0.09, that is
\* the weights 15.79%, 63.16% and 21.05%.
C18_MinVarianceInverseVariance ==
    (/\ Shown
     /\ optimizationResult.method = "min-volatility"
     /\ Len(resultInputs.holdings) = Len(ScenarioVariances))
        => \/ CloseTo(optimizationResult.allocations, InverseVarianceWeights(ScenarioVariances))
           \/ CloseTo(optimizationResult.allocations, ScenarioWeights)

\* the holdings of any categories the optimizers distinguish
Categories ==
    {"Technology", "Banking", "Healthcare", "FMCG", "Energy", "Auto", "Utilities", "Stock"}

CategoryHoldings ==
    UNION {{[i \in 1..n |-> [symbol |-> Symbols[i], category |-> cats[i]]] :
               cats \in [1..n -> Categories]} : n \in 1..MaxHoldings}

\* the risk contribution w_i * (Sigma w)_i of each holding is the same,
\* for the covariance the optimizer assumes: the sector volatilities, squared,
\* on the diagonal and no correlation
EqualRiskContributions(allocations, hs) ==
    \A i, j \in 1..Len(hs) :
        RMul(RMul(allocations[i], allocations[i]),
             RMul(SectorVolatility(hs[i].category), SectorVolatility(hs[i].category)))
          = RMul(RMul(allocations[j], allocations[j]),
                 RMul(SectorVolatility(hs[j].category), SectorVolatility(hs[j].category)))

RiskParityOnEveryCategory ==
    \A hs \in CategoryHoldings :
        EqualRiskContributions(runRiskParityOptimization(hs).allocations, hs)

ZeroVolatilitySeries ==
    \/ Len(performanceReturns) = 1
    \/ IsZero(performanceMetrics(performanceReturns, perfPortfolio).volatility)

\* C6: when the volatility is zero or there is a single observation, the
\* Sharpe, Sortino and Treynor ratios reported are exactly 0 (so neither
\* NaN nor infinite).
C6_ZeroVolatilityRatiosAreZero ==
    ZeroVolatilitySeries =>
        /\ IsZero(performanceMetrics(performanceReturns, perfPortfolio).sharpeRatio)
        /\ IsZero(performanceMetrics(performanceReturns, perfPortfolio).sortinoRatio)
        /\ IsZero(performanceMetrics(performanceReturns, perfPortfolio).treynorRatio)

\* the decline, in percent of the value of day i, from day i to a later
\* day j of the series
Decline(i, j) ==
    Rat((performanceReturns[i].portfolioValue - performanceReturns[j].portfolioValue) * 100,
        performanceReturns[i].portfolioValue)

\* the largest decline from a day to the same or a later day
LargestDecline(magnitude) ==
    /\ \A i, j \in 1..Len(performanceReturns) : i <= j => RLeq(Decline(i, j), magnitude)
    /\ \E i, j \in 1..Len(performanceReturns) : i <= j /\ Decline(i, j) = magnitude

\* the date is that of a trough of a decline of that magnitude
DateOfTrough(magnitude, date) ==
    \E i, j \in 1..Len(performanceReturns) :
        i < j /\ Decline(i, j) = magnitude /\ performanceReturns[j].date = date

\* C11: the maximum drawdown reported is the largest peak-to-trough decline
\* of the portfolio value series and, when there is a decline, its date
\* is that of the trough; once the history has been loaded with fewer than
\* 2 observations it is zero.
C11_MaxDrawdownIsLargestDecline ==
    LET metrics == performanceMetrics(performanceReturns, perfPortfolio)
    IN  /\ (~perfIsLoading /\ Len(performanceReturns) < 2) => metrics.maxDrawdown = RInt(0)
        /\ Len(performanceReturns) >= 2 =>
               /\ LargestDecline(metrics.maxDrawdown)
               /\ metrics.maxDrawdown # RInt(0) =>
                      DateOfTrough(metrics.maxDrawdown, metrics.maxDrawdownDate)

\* C12: every holding of the portfolio has a quantity of 0 or more.
C12_QuantityNeverNegative ==
    \A n \in 1..Len(dashHoldings) : dashHoldings[n].quantity[1] >= 0

\* the result carries a Value at Risk
ComputesVaR(result) == "portfolioVaR" \in DOMAIN result

\* C13: a call of the hook with a confidence level other than 90, 95 or 99
\* is refused: no Value at Risk is computed from it.
C13_OtherLevelsRejected ==
    (riskCall # Null /\ riskCall.confidenceLevel \notin ConfidenceLevels)
        => ~ComputesVaR(riskMetrics(riskHoldings, riskCall.confidenceLevel,
                                    riskCall.timeHorizon))

\* a is not greater than b, and neither is NaN
RootNotAbove(a, b) == a # NaN /\ b # NaN /\ ~RootGreater(a, b)

VaRNotAbove(lower, higher) ==
    /\ RootNotAbove(riskMetrics(riskHoldings, lower, timeHorizon).portfolioVaR,
                    riskMetrics(riskHoldings, higher, timeHorizon).portfolioVaR)
    /\ RootNotAbove(riskMetrics(riskHoldings, lower, timeHorizon).portfolioVaRPercent,
                    riskMetrics(riskHoldings, higher, timeHorizon).portfolioVaRPercent)

\* C10: for the holdings and the time horizon of the page, the Value at
\* Risk (amount and percent) at 90% is at most that at 95%, which is at
\* most that at 99%.
C10_VaRMonotoneInConfidence == VaRNotAbove(90, 95) /\ VaRNotAbove(95, 99)

\* holdings with a positive VaR, shown at 99% over more than one day: the
\* VaR shown is strictly above that of the two lower levels
C10_Witness ==
    /\ riskHoldings # <<>>
    /\ confidenceLevel = 99
    /\ timeHorizon > 1
    /\ RootGreater(riskMetrics(riskHoldings, confidenceLevel, timeHorizon).portfolioVaR,
                   riskMetrics(riskHoldings, 95, timeHorizon).portfolioVaR)
    /\ RootGreater(riskMetrics(riskHoldings, 95, timeHorizon).portfolioVaR,
                   riskMetrics(riskHoldings, 90, timeHorizon).portfolioVaR)

\* the standard-normal quantiles, to four decimals
StandardNormalQuantile(level) ==
    IF level = 90 THEN <<12816, 10000>>
    ELSE IF level = 95 THEN <<16449, 10000>> ELSE <<23263, 10000>>

\* volatility of a day * z * sqrt(days), in the form riskMetrics gives it
VaRPercentWith(z, hs, horizon) ==
    RootMul(RootScale(Root(TotalVolatility(hs)), z), Sqrt(RInt(horizon)))

\* C20: the Value at Risk of the page is computed with the exact
\* standard-normal quantile of its confidence level: 1.2816 at 90%, 1.6449
\* at 95% and 2.3263 at 99%.
C20_ExactQuantiles ==
    (riskHoldings # <<>> /\ TotalValue(riskHoldings) # RInt(0))
        => riskMetrics(riskHoldings, confidenceLevel, timeHorizon).portfolioVaRPercent
             = VaRPercentWith(StandardNormalQuantile(confidenceLevel),
                              riskHoldings, timeHorizon)

\* the Value at Risk of the page is above 0
PositiveVaR ==
    /\ riskHoldings # <<>>
    /\ TotalValue(riskHoldings) # RInt(0)

\* C21: the CVaR of the page is no fixed multiple of its VaR: it is not
\* 1.3 times the VaR, and its ratio to the VaR at 90% differs from that at
\* 99%.
C21_CVaRNotFlatMultiple ==
    PositiveVaR =>
        LET shown == riskMetrics(riskHoldings, confidenceLevel, timeHorizon)
            at90  == riskMetrics(riskHoldings, 90, timeHorizon)
            at99  == riskMetrics(riskHoldings, 99, timeHorizon)
        IN  /\ shown.portfolioCVaRPercent # RootScale(shown.portfolioVaRPercent, <<13, 10>>)
            /\ RootMul(at90.portfolioCVaRPercent, at99.portfolioVaRPercent)
                 # RootMul(at99.portfolioCVaRPercent, at90.portfolioVaRPercent)

(***************************************************************************)
(* Claims on WebSocketService.                                             *)
(***************************************************************************)
\* C22: reconnectAttempts never goes above maxReconnectAttempts, and once
\* it has reached it no step schedules a further reconnect timer.
C22_ReconnectAttemptsBounded ==
    [][/\ reconnectAttempts' <= maxReconnectAttempts
       /\ reconnectAttempts >= maxReconnectAttempts => pendingTimers' <= pendingTimers]_vars

\* a connection error handled after the fifth attempt: no timer is pending,
\* so the error scheduled none
C22_Witness ==
    /\ reconnectAttempts = maxReconnectAttempts
    /\ lastEvent = "connect_error"
    /\ pendingTimers = 0

\* C23: after any sequence of connect and disconnect calls and socket
\* events, no socket other than the one held in this.socket is open.
C23_AtMostOneLiveSocket ==
    \A s \in SocketIds : sockets[s] # "closed" => s = socket

(***************************************************************************)
(* Claims on AuthProvider, the token of ApiService and ProtectedRoute.     *)
(***************************************************************************)
\* C24: once the request of a logout has been answered, with success or
\* with an error, and nobody has logged in since, the token is cleared from
\* ApiService and from localStorage.
C24_LogoutClearsToken ==
    logoutCall \in {"ok", "failed"} =>
        /\ apiToken = NoToken
        /\ storedToken = NoToken

\* C25: ProtectedRoute renders its children only when the check is not
\* loading and a user is set; otherwise it renders the spinner or the
\* redirect to the login route.
C25_ChildrenOnlyWhenAuthenticated ==
    /\ ProtectedRoute = "children" => (~isLoading /\ user # NoUser)
    /\ ProtectedRoute # "children" => ProtectedRoute \in {"spinner", "login"}

\* the children are rendered for the user of a login made after a logout
C25_Witness ==
    /\ user = SessionUser
    /\ ~isLoading
    /\ logoutCall = "stale"
    /\ ProtectedRoute = "children"

(***************************************************************************)
(* Claims on the event emitter of WebSocketService.                        *)
(***************************************************************************)
\* the registrations of the callback in the list
Registrations(listeners, callback) ==
    Len(SelectSeq(listeners, LAMBDA listener : listener = callback))

\* C30: off(event, cb) removes every registration of cb for the event and
\* leaves every other registration as it was; an emit invokes each callback
\* once per registration; and only on(event, cb) registers cb again.
C30_OffRemovesOnlyThatCallback ==
    [][/\ lastCall'.op = "off" =>
             /\ Registrations(eventListeners'[lastCall'.event], lastCall'.callback) = 0
             /\ \A other \in Callbacks \ {lastCall'.callback} :
                    Registrations(eventListeners'[lastCall'.event], other)
                      = Registrations(lastCall'.before, other)
             /\ \A e \in Events \ {lastCall'.event} : eventListeners'[e] = eventListeners[e]
       /\ lastCall'.op = "emit" =>
             \A c \in Callbacks :
                 Registrations(invoked', c) = Registrations(eventListeners[lastCall'.event], c)
       /\ \A e \in Events, c \in Callbacks :
             Registrations(eventListeners'[e], c) > Registrations(eventListeners[e], c)
                 => (lastCall'.op = "on" /\ lastCall'.event = e /\ lastCall'.callback = c)
      ]_vars

\* off has removed a callback registered twice, next to another callback
\* that stays registered
C30_Witness ==
    /\ lastCall.op = "off"
    /\ Registrations(lastCall.before, lastCall.callback) = 2
    /\ \E other \in Callbacks \ {lastCall.callback} :
          /\ Registrations(lastCall.before, other) = 1
          /\ eventListeners[lastCall.event] = <<other>>

(***************************************************************************)
(* Claims on usePortfolio.                                                 *)
(***************************************************************************)
\* C26: the holdings in state are never replaced by the response of a call
\* of fetchHoldings made before the call they came from.
C26_OlderFetchNeverOverwrites ==
    [][portfolioHoldings'.fetch >= portfolioHoldings.fetch]_vars

(***************************************************************************)
(* Claims on the add-asset form.                                           *)
(***************************************************************************)
\* C27: at most one call of onAdd is outstanding at any time.
C27_OneSubmissionInFlight == onAddCalls <= 1

\* a submit event has arrived while a submission was in flight, and was ignored
C27_Witness ==
    /\ isSubmitting
    /\ onAddCalls = 1
    /\ lastSubmit = "ignored"

\* C28: once typing has stopped and every search has completed, the
\* suggestions shown are those of the value typed last, or none.
C28_SuggestionsOfLastValue ==
    (searchTimeout = "none" /\ searchCalls = {})
        => searchResults \in {formSymbol, ""}

(***************************************************************************)
(* Claims on useRealTimeData and the settings page.                        *)
(***************************************************************************)
\* the hook refreshes periodically: it is in demo mode, or connected with
\* symbols to refresh
RefreshesPeriodically == isDemoMode \/ (hookConnected /\ hasSymbols)

====
